---- MODULE Spec2Model ----
(***************************************************************************)
(* Model of the atwinc1500 driver's wire protocol stack: the HIF header    *)
(* codec (src/src/hif.rs) and the SPI command encoder and register access  *)
(* (src/src/spi.rs).  Buffers are sequences of bytes; the Rust index i of  *)
(* a buffer is the TLA+ index i + 1 (see At and Set).                       *)
(***************************************************************************)
EXTENDS Integers, Naturals, Sequences, FiniteSets, TLC

VARIABLES
    h_args,      \* arguments of the last HifHeader::new call
    h_hdr,       \* the HifHeader it built (or the panic it ended in)
    h_bytes,     \* [u8; 8] made from h_hdr
    h_reg,       \* u32 made from h_hdr
    h_parsed,    \* HifHeader parsed back from the first four bytes of h_bytes
    crc,         \* SpiBus.crc
    crc_disabled,\* SpiBus.crc_disabled
    cs,          \* level of the chip-select pin
    b_call,      \* the SpiBus operation called last, with its arguments
    b_wire,      \* the calls of transfer it made: words sent, words received, result
    b_ret,       \* what it returned
    overflow_panics, \* the build: arithmetic overflow panics (debug) or wraps
    ctx,         \* HostInterface.ctx
    state,       \* Atwinc1500.state
    f_call,      \* the HostInterface operation called last, with its arguments
    f_bus,       \* the SpiBus operations it made, in order
    f_callbacks, \* the callbacks it made, in order
    f_ret        \* what it returned

hvars == <<h_args, h_hdr, h_bytes, h_reg, h_parsed>>

bvars == <<crc, crc_disabled, cs, b_call, b_wire, b_ret>>

fvars == <<overflow_panics, ctx, state, f_call, f_bus, f_callbacks, f_ret>>

vars == <<h_args, h_hdr, h_bytes, h_reg, h_parsed,
          crc, crc_disabled, cs, b_call, b_wire, b_ret,
          overflow_panics, ctx, state, f_call, f_bus, f_callbacks, f_ret>>

(***************************************************************************)
(* Fixed-width integer helpers.                                            *)
(***************************************************************************)
\* TLC's integers are 32-bit signed, so a u32 is kept as its four bytes, most
\* significant first; u8 and u16 values are plain integers.
Pow2(n) == 2 ^ n

U8(x) == x % 256

U16(x) == x % 65536

Shr(x, n) == x \div Pow2(n)

\* the u32 of a non-negative integer below 2^31
W32(n) == << U8(Shr(n, 24)), U8(Shr(n, 16)), U8(Shr(n, 8)), U8(n) >>

\* (w >> 8*k) as u8
ByteOf(w, k) == w[4 - k]

\* (w << 8) | b on a u32
ShlOr8(w, b) == << w[2], w[3], w[4], b >>

\* w <= n for a byte-sized n
LeqByte(w, n) == w[1] = 0 /\ w[2] = 0 /\ w[3] = 0 /\ w[4] <= n

RECURSIVE BitAnd(_, _)
BitAnd(a, b) ==
    IF a = 0 \/ b = 0 THEN 0
    ELSE (a % 2) * (b % 2) + 2 * BitAnd(a \div 2, b \div 2)

RECURSIVE BitOr(_, _)
BitOr(a, b) ==
    IF a = 0 THEN b
    ELSE IF b = 0 THEN a
    ELSE (IF (a % 2) + (b % 2) > 0 THEN 1 ELSE 0) + 2 * BitOr(a \div 2, b \div 2)

RECURSIVE BitXor(_, _)
BitXor(a, b) ==
    IF a = 0 THEN b
    ELSE IF b = 0 THEN a
    ELSE (((a % 2) + (b % 2)) % 2) + 2 * BitXor(a \div 2, b \div 2)

\* Rust index i of a buffer
At(buf, i) == buf[i + 1]

Set(buf, i, v) == [buf EXCEPT ![i + 1] = v]

Zeros(n) == [i \in 1..n |-> 0]

\* buf[beg..end]
Slice(buf, beg, end) == [i \in 1..(end - beg) |-> buf[beg + i]]

(***************************************************************************)
(* macros.rs                                                               *)
(***************************************************************************)
RECURSIVE combine_bytes_from(_, _, _)
combine_bytes_from(buffer, i, value) ==
    IF i > Len(buffer) THEN value
    ELSE combine_bytes_from(buffer, i + 1, ShlOr8(value, buffer[i]))

\* combine_bytes!: value <<= 8; value |= buffer[i], for i ascending
combine_bytes(buffer) == combine_bytes_from(buffer, 1, W32(0))

RECURSIVE combine_bytes_lsb_from(_, _, _)
combine_bytes_lsb_from(buffer, i, value) ==
    IF i < 1 THEN value
    ELSE combine_bytes_lsb_from(buffer, i - 1, ShlOr8(value, buffer[i]))

combine_bytes_msb(buffer) == combine_bytes_from(buffer, 1, W32(0))

\* combine_bytes_lsb!: the same for i descending
combine_bytes_lsb(buffer) == combine_bytes_lsb_from(buffer, Len(buffer), W32(0))

(***************************************************************************)
(* hif.rs: HifHeader                                                       *)
(***************************************************************************)
HIF_HEADER_SIZE == 8

NoHeader == [tag |-> "none"]

Panic == [tag |-> "panic"]

Header(gid, op, length) == [tag |-> "hdr", gid |-> gid, op |-> op, length |-> length]

\* HifHeader::new.  `length + HIF_HEADER_SIZE as u16` is a u16 addition: on
\* overflow a build with overflow checks panics, one without them wraps.
HifHeader_new(gid, op, length, overflow_checks) ==
    IF length + HIF_HEADER_SIZE > 65535
    THEN IF overflow_checks THEN Panic
         ELSE Header(gid, op, U16(length + HIF_HEADER_SIZE))
    ELSE Header(gid, op, length + HIF_HEADER_SIZE)

\* impl From<HifHeader> for [u8; HIF_HEADER_SIZE]
HifHeader_into_bytes(header) ==
    << header.gid, header.op, U8(header.length), U8(Shr(header.length, 8)),
       0, 0, 0, 0 >>

HifHeader_into_u32_swapped(header) ==
    combine_bytes(<< U8(header.length), U8(Shr(header.length, 8)),
                     header.op, header.gid >>)

\* impl From<HifHeader> for u32
HifHeader_into_u32(header) ==
    combine_bytes(<< U8(Shr(header.length, 8)), U8(header.length),
                     header.op, header.gid >>)

\* impl From<[u8; 4]> for HifHeader
HifHeader_from(array) ==
    Header(At(array, 0), At(array, 1),
           BitOr(U16(At(array, 2) * Pow2(8)), At(array, 3)))

(***************************************************************************)
(* Inputs of the header codec.                                             *)
(***************************************************************************)
GroupIds == {0, 1, 2, 3, 255}

Opcodes == {0, 1, 44, 255}

PayloadLens == {0, 1, 248, 255, 256, 4660, 65527, 65528, 65535}

HVarsInit ==
    /\ h_args = NoHeader
    /\ h_hdr = NoHeader
    /\ h_bytes = <<>>
    /\ h_reg = <<>>
    /\ h_parsed = NoHeader

NewHeader ==
    /\ h_hdr = NoHeader
    /\ \E g \in GroupIds, o \in Opcodes, n \in PayloadLens, checks \in BOOLEAN :
         /\ h_args' = Header(g, o, n)
         /\ h_hdr' = HifHeader_new(g, o, n, checks)
    /\ UNCHANGED <<h_bytes, h_reg, h_parsed>>
    /\ UNCHANGED bvars
    /\ UNCHANGED fvars

HeaderToBytes ==
    /\ h_hdr.tag = "hdr"
    /\ h_bytes = <<>>
    /\ h_bytes' = HifHeader_into_bytes(h_hdr)
    /\ UNCHANGED <<h_args, h_hdr, h_reg, h_parsed>>
    /\ UNCHANGED bvars
    /\ UNCHANGED fvars

HeaderToU32 ==
    /\ h_hdr.tag = "hdr"
    /\ h_bytes # <<>>
    /\ h_reg = <<>>
    /\ h_reg' = HifHeader_into_u32(h_hdr)
    /\ UNCHANGED <<h_args, h_hdr, h_bytes, h_parsed>>
    /\ UNCHANGED bvars
    /\ UNCHANGED fvars

HeaderFromBytes ==
    /\ h_bytes # <<>>
    /\ h_parsed = NoHeader
    /\ h_parsed' = HifHeader_from(Slice(h_bytes, 0, 4))
    /\ UNCHANGED <<h_args, h_hdr, h_bytes, h_reg>>
    /\ UNCHANGED bvars
    /\ UNCHANGED fvars

HNext == NewHeader \/ HeaderToBytes \/ HeaderToU32 \/ HeaderFromBytes

(***************************************************************************)
(* spi.rs: commands, sizes                                                 *)
(***************************************************************************)
CmdDmaWrite == 193

CmdDmaRead == 194

CmdInternalWrite == 195

CmdInternalRead == 196

CmdTerminate == 197

CmdRepeat == 198

CmdDmaExtWrite == 199

CmdDmaExtRead == 200

CmdSingleWrite == 201

CmdSingleRead == 202

CmdReset == 207

Commands ==
    { CmdDmaWrite, CmdDmaRead, CmdInternalWrite, CmdInternalRead, CmdTerminate,
      CmdRepeat, CmdDmaExtWrite, CmdDmaExtRead, CmdSingleWrite, CmdSingleRead,
      CmdReset }

CRC_BIT == 1

RESPONSE == 2

DATA_START == 1

DATA == 4

TYPE_A == 4

TYPE_B == 6

TYPE_C == 7

TYPE_D == 8

TYPE_A_CRC == TYPE_A + CRC_BIT

TYPE_C_CRC == TYPE_C + CRC_BIT

TYPE_D_CRC == TYPE_D + CRC_BIT

\* The payload shape the Command enum documents for each opcode
\* ("type A" .. "type D" in its comments).
ShapeLen(command) ==
    CASE command \in {CmdDmaWrite, CmdDmaRead} -> TYPE_B
      [] command \in {CmdInternalWrite, CmdDmaExtWrite, CmdDmaExtRead} -> TYPE_C
      [] command = CmdSingleWrite -> TYPE_D
      [] OTHER -> TYPE_A

(***************************************************************************)
(* error.rs: SpiCommandError                                               *)
(***************************************************************************)
NoError == 0

\* impl From<u8> for SpiCommandError
SpiCommandError_from(other) ==
    CASE other = 0 -> "NoError"
      [] other = 1 -> "UnsupportedCommand"
      [] other = 2 -> "UnexpectedDataReceived"
      [] other = 3 -> "Crc7Error"
      [] other = 4 -> "Crc16Error"
      [] other = 5 -> "InternalError"
      [] OTHER -> "InvalidError"

(***************************************************************************)
(* crc.rs: crc7, the CRC-7 of polynomial x^7 + x^3 + 1, most significant   *)
(* bit first, over a byte slice, starting from `crc`.                      *)
(***************************************************************************)
Crc7Poly == 9

\* one bit of the shift register: `c` is the 7-bit remainder, `bit` the input
crc7_bit(c, bit) ==
    LET sh == (c * 2) % 128
    IN  IF (Shr(c, 6) + bit) % 2 = 1 THEN BitXor(sh, Crc7Poly) ELSE sh

crc7_byte_bits(c, byte) ==
    LET c7 == crc7_bit(c, Shr(byte, 7) % 2)
        c6 == crc7_bit(c7, Shr(byte, 6) % 2)
        c5 == crc7_bit(c6, Shr(byte, 5) % 2)
        c4 == crc7_bit(c5, Shr(byte, 4) % 2)
        c3 == crc7_bit(c4, Shr(byte, 3) % 2)
        c2 == crc7_bit(c3, Shr(byte, 2) % 2)
        c1 == crc7_bit(c2, Shr(byte, 1) % 2)
    IN  crc7_bit(c1, byte % 2)

\* the syndrome table: the remainder of each byte value
crc7_syndrome_table == [x \in 0..255 |-> crc7_byte_bits(0, x)]

crc7_byte(c, data) == crc7_syndrome_table[BitXor(c * 2, data)]

RECURSIVE crc7_from(_, _, _)
crc7_from(c, buffer, i) ==
    IF i > Len(buffer) THEN c
    ELSE crc7_from(crc7_byte(c, buffer[i]), buffer, i + 1)

crc7(c, buffer) == crc7_from(c, buffer, 1)

Crc7Seed == 127

(***************************************************************************)
(* spi.rs: SpiBus                                                          *)
(***************************************************************************)
\* SpiBus::transfer.  `outcome` is what the pin and the bus do: "ok", or the
\* step that fails.  `rx` is what the chip clocks out during the exchange.
transfer(words, rx, outcome, pin) ==
    CASE outcome = "cs_low_err" ->
            [res |-> "PinStateError", words |-> words, cs |-> pin]
      [] outcome = "spi_err" ->
            [res |-> "TransferError", words |-> words, cs |-> "low"]
      [] outcome = "cs_high_err" ->
            [res |-> "PinStateError", words |-> rx, cs |-> "low"]
      [] OTHER ->
            [res |-> "Ok", words |-> rx, cs |-> "high"]

TransferOutcomes == {"ok", "cs_low_err", "spi_err", "cs_high_err"}

\* the match of SpiBus::command: the index it leaves in crc_index
crc_index(command) ==
    CASE command = CmdDmaWrite -> 0
      [] command = CmdDmaRead -> TYPE_B
      [] command = CmdInternalWrite -> TYPE_C
      [] command = CmdInternalRead -> TYPE_A
      [] command = CmdTerminate -> TYPE_A
      [] command = CmdRepeat -> TYPE_A
      [] command = CmdDmaExtWrite -> 0
      [] command = CmdDmaExtRead -> 0
      [] command = CmdSingleWrite -> TYPE_D
      [] command = CmdSingleRead -> TYPE_A
      [] command = CmdReset -> TYPE_A

SetAll(buf, from, bytes) ==
    [i \in 1..Len(buf) |->
        IF i - from \in 1..Len(bytes) THEN bytes[i - from] ELSE buf[i]]

ClocklessBit == 128

command_fields_address16(cmd_buffer, command, address, data, size, clockless) ==
    LET b0 == Set(cmd_buffer, 0, command)
    IN  IF command = CmdSingleWrite
        THEN SetAll(b0, 1, << ByteOf(address, 2), ByteOf(address, 1), ByteOf(address, 0),
                              ByteOf(data, 3), ByteOf(data, 2), ByteOf(data, 1),
                              ByteOf(data, 0) >>)
        ELSE SetAll(b0, 1, << ByteOf(address, 1), ByteOf(address, 0), 0 >>)

\* the match of SpiBus::command: the bytes it writes after the opcode
command_fields(cmd_buffer, command, address, data, size, clockless) ==
    LET b0 == Set(cmd_buffer, 0, command)
        hi == IF clockless THEN BitOr(ByteOf(address, 1), ClocklessBit)
              ELSE ByteOf(address, 1)
    IN
    CASE command = CmdDmaWrite -> b0
      [] command = CmdDmaRead ->
            SetAll(b0, 1, << ByteOf(address, 2), ByteOf(address, 1), ByteOf(address, 0),
                             ByteOf(size, 1), ByteOf(size, 0) >>)
      [] command = CmdInternalWrite ->
            SetAll(b0, 1, << hi, ByteOf(address, 0),
                             ByteOf(data, 3), ByteOf(data, 2), ByteOf(data, 1),
                             ByteOf(data, 0) >>)
      [] command = CmdInternalRead ->
            SetAll(b0, 1, << hi, ByteOf(address, 0), 0 >>)
      [] command \in {CmdTerminate, CmdRepeat} ->
            SetAll(b0, 1, << 0, 0, 0 >>)
      [] command \in {CmdDmaExtWrite, CmdDmaExtRead} ->
            SetAll(b0, 1, << ByteOf(address, 2), ByteOf(address, 1), ByteOf(address, 0),
                             ByteOf(size, 2), ByteOf(size, 1), ByteOf(size, 0) >>)
      [] command = CmdSingleWrite ->
            SetAll(b0, 1, << ByteOf(address, 2), ByteOf(address, 1), ByteOf(address, 0),
                             ByteOf(data, 3), ByteOf(data, 2), ByteOf(data, 1),
                             ByteOf(data, 0) >>)
      [] command = CmdSingleRead ->
            SetAll(b0, 1, << ByteOf(address, 2), ByteOf(address, 1), ByteOf(address, 0) >>)
      [] command = CmdReset ->
            SetAll(b0, 1, << 255, 255, 255 >>)

\* SpiBus::command up to the transfer: the buffer it puts on the bus
command_buffer(cmd_buffer, command, address, data, size, clockless, crc_f, crc_dis) ==
    LET fields == command_fields(cmd_buffer, command, address, data, size, clockless)
        idx == crc_index(command)
    IN  IF crc_f \/ ~crc_dis
        THEN Set(fields, idx, U8(crc7(Crc7Seed, Slice(fields, 0, idx)) * 2))
        ELSE fields

\* SpiBus::command
command(cmd_buffer, cmd, address, data, size, clockless, crc_f, crc_dis, rx, outcome, pin) ==
    LET tx == command_buffer(cmd_buffer, cmd, address, data, size, clockless, crc_f, crc_dis)
        t == transfer(tx, rx, outcome, pin)
    IN  [res |-> t.res, words |-> t.words, cs |-> t.cs,
         wire |-> << [tx |-> tx, rx |-> rx, res |-> t.res] >>]

Ok(v) == [tag |-> "Ok", val |-> v]

Err(e) == [tag |-> "Err", err |-> e]

READ_CLOCKLESS_MAX == 255

read_reg_select_never_clockless(address) ==
    IF LeqByte(address, READ_CLOCKLESS_MAX)
    THEN [cmd |-> CmdInternalRead, clockless |-> FALSE]
    ELSE [cmd |-> CmdSingleRead, clockless |-> FALSE]

read_reg_select_write_threshold(address) ==
    IF LeqByte(address, 48)
    THEN [cmd |-> CmdInternalRead, clockless |-> TRUE]
    ELSE [cmd |-> CmdSingleRead, clockless |-> FALSE]

\* SpiBus::read_reg: the command and addressing mode chosen for an address
read_reg_select(address) ==
    IF LeqByte(address, READ_CLOCKLESS_MAX)
    THEN [cmd |-> CmdInternalRead, clockless |-> TRUE]
    ELSE [cmd |-> CmdSingleRead, clockless |-> FALSE]

read_reg_response_no_marker(cmd_buffer, cmd, beg, end, response_start) ==
    LET status == BitAnd(At(cmd_buffer, response_start + 1), 15)
    IN  IF \/ At(cmd_buffer, response_start) # cmd
           \/ status # 0
        THEN Err(<< "ReadRegisterError", cmd, SpiCommandError_from(status),
                    At(cmd_buffer, response_start + 2) >>)
        ELSE Ok(combine_bytes_lsb(Slice(cmd_buffer, beg, end)))

\* SpiBus::read_reg: what it makes of the buffer the transfer left
read_reg_response(cmd_buffer, cmd, beg, end, response_start) ==
    LET status == BitAnd(At(cmd_buffer, response_start + 1), 15)
    IN  IF \/ At(cmd_buffer, response_start) # cmd
           \/ status # NoError
           \/ BitAnd(At(cmd_buffer, response_start + 2), 240) # 240
        THEN Err(<< "ReadRegisterError", cmd, SpiCommandError_from(status),
                    At(cmd_buffer, response_start + 2) >>)
        ELSE Ok(combine_bytes_lsb(Slice(cmd_buffer, beg, end)))

\* SpiBus::read_reg
read_reg(address, S, beg, end, response_start, crc_f, crc_dis, rx, outcome, pin) ==
    LET sel == read_reg_select(address)
        c == command(Zeros(S), sel.cmd, address, W32(0), W32(0), sel.clockless,
                     crc_f, crc_dis, rx, outcome, pin)
    IN  [cs |-> c.cs, wire |-> c.wire,
         ret |-> IF c.res # "Ok" THEN Err(<<c.res>>)
                 ELSE read_reg_response(c.words, sel.cmd, beg, end, response_start)]

\* SpiBus::read_register
read_register(address, crc_f, crc_dis, rx, outcome, pin) ==
    IF crc_dis
    THEN read_reg(address, TYPE_A + RESPONSE + DATA_START + DATA, 7, 11, 4,
                  crc_f, crc_dis, rx, outcome, pin)
    ELSE read_reg(address, TYPE_A_CRC + RESPONSE + DATA_START + DATA, 8, 12, 5,
                  crc_f, crc_dis, rx, outcome, pin)

WRITE_CLOCKLESS_MAX == 48

write_reg_select_below(address) ==
    IF LeqByte(address, WRITE_CLOCKLESS_MAX - 1)
    THEN [cmd |-> CmdInternalWrite, clockless |-> TRUE]
    ELSE [cmd |-> CmdSingleWrite, clockless |-> FALSE]

\* SpiBus::write_reg: the command and addressing mode chosen for an address
write_reg_select(address) ==
    IF LeqByte(address, WRITE_CLOCKLESS_MAX)
    THEN [cmd |-> CmdInternalWrite, clockless |-> TRUE]
    ELSE [cmd |-> CmdSingleWrite, clockless |-> FALSE]

write_reg_response_no_echo(cmd_buffer, cmd, response_start) ==
    LET status == BitAnd(At(cmd_buffer, response_start + 1), 15)
    IN  IF status # 0
        THEN Err(<< "WriteRegisterError", cmd, SpiCommandError_from(status) >>)
        ELSE Ok(<<>>)

\* SpiBus::write_reg: what it makes of the buffer the transfer left
write_reg_response(cmd_buffer, cmd, response_start) ==
    LET status == BitAnd(At(cmd_buffer, response_start + 1), 15)
    IN  IF At(cmd_buffer, response_start) # cmd \/ status # NoError
        THEN Err(<< "WriteRegisterError", cmd, SpiCommandError_from(status) >>)
        ELSE Ok(<<>>)

\* SpiBus::write_reg
write_reg(address, data, S, response_start, crc_f, crc_dis, rx, outcome, pin) ==
    LET sel == write_reg_select(address)
        c == command(Zeros(S), sel.cmd, address, data, W32(0), sel.clockless,
                     crc_f, crc_dis, rx, outcome, pin)
    IN  [cs |-> c.cs, wire |-> c.wire,
         ret |-> IF c.res # "Ok" THEN Err(<<c.res>>)
                 ELSE write_reg_response(c.words, sel.cmd, response_start)]

\* SpiBus::write_register
write_register(address, data, crc_f, crc_dis, rx, outcome, pin) ==
    IF crc_dis
    THEN write_reg(address, data, TYPE_D + RESPONSE, 8, crc_f, crc_dis, rx, outcome, pin)
    ELSE write_reg(address, data, TYPE_D_CRC + RESPONSE, 9, crc_f, crc_dis, rx, outcome, pin)

(***************************************************************************)
(* spi.rs: block transfers.  A block operation makes several calls of      *)
(* transfer; `chip` says what the pins, the bus and the chip do during     *)
(* them, and `run` carries the pin level, the log of the calls made so far *)
(* and the result and buffer of the last one.                              *)
(***************************************************************************)
\* the element of a one-element set: names an intermediate result
The(S) == CHOOSE x \in S : TRUE

\* what happens to call number n of transfer
ChipOutcome(chip, n) == IF n = chip.fail_at THEN chip.fail_kind ELSE "ok"

\* the next call of SpiBus::transfer inside an operation, on buffer `buf`
transfer_in(run, buf, words, answer, chip) ==
    LET outcome == ChipOutcome(chip, Len(run.wire) + 1)
        rx == IF outcome \in {"ok", "cs_high_err"} THEN answer ELSE Zeros(Len(words))
        t == transfer(words, rx, outcome, run.cs)
    IN  [res |-> t.res, words |-> t.words, cs |-> t.cs,
         wire |-> Append(run.wire, [buf |-> buf, tx |-> words, rx |-> rx, res |-> t.res])]

DATA_RETRIES == 10

\* the chip's answer to poll number k of read: nothing yet during the first
\* `zeros` polls, then its response
ReadPollAnswer(chip, k) ==
    IF k <= chip.zeros THEN << 0, chip.second, 0 >> ELSE << chip.first, chip.second, 0 >>

\* SpiBus::read: retry_while!(response[0] == 0, retries = 10, transfer(response)?)
RECURSIVE read_retry_while(_, _, _, _)
read_retry_while(run, response, r, chip) ==
    IF At(response, 0) = 0 /\ r > 0
    THEN The({ IF t.res # "Ok" THEN t ELSE read_retry_while(t, t.words, r - 1, chip) :
               t \in { transfer_in(run, "response", response,
                                   ReadPollAnswer(chip, DATA_RETRIES - r + 1), chip) } })
    ELSE [res |-> "Ok", words |-> response, cs |-> run.cs, wire |-> run.wire]

read_response_zero_passes(response, cmd) ==
    IF At(response, 0) = cmd \/ At(response, 0) = 0 THEN Ok(<<>>)
    ELSE Err(<< "ReadDataError", cmd, SpiCommandError_from(At(response, 1)) >>)

\* SpiBus::read: what it makes of the response the polls left
read_response(response, cmd) ==
    IF At(response, 0) = cmd THEN Ok(<<>>)
    ELSE Err(<< "ReadDataError", cmd, SpiCommandError_from(At(response, 1)) >>)

\* what a block operation hands back: the pin, the log, the caller's buffer
\* and the result
Returned(run, data, ret) == [cs |-> run.cs, wire |-> run.wire, data |-> data, ret |-> ret]

\* SpiBus::read: c is the command, p the polls, d the bulk transfer
read(S, data, address, count, crc_f, crc_dis, chip, pin) ==
    LET cmd == CmdDmaExtRead
    IN
    The({ IF c.res # "Ok" THEN Returned(c, data, Err(<<c.res>>)) ELSE
      The({ IF p.res # "Ok" THEN Returned(p, data, Err(<<p.res>>))
            ELSE IF read_response(p.words, cmd).tag = "Err"
            THEN Returned(p, data, read_response(p.words, cmd)) ELSE
        The({ IF d.res # "Ok" THEN Returned(d, d.words, Err(<<d.res>>))
              ELSE Returned(d, d.words, Ok(<<>>)) :
          d \in { transfer_in(p, "data", data, chip.data, chip) } }) :
        p \in { read_retry_while(c, Zeros(RESPONSE + DATA_START), DATA_RETRIES, chip) } }) :
      c \in { command(Zeros(S), cmd, address, W32(0), count, FALSE, crc_f, crc_dis,
                      Zeros(S), ChipOutcome(chip, 1), pin) } })

\* SpiBus::read_data
read_data(data, address, count, crc_f, crc_dis, chip, pin) ==
    IF crc_dis
    THEN read(TYPE_C, data, address, count, crc_f, crc_dis, chip, pin)
    ELSE read(TYPE_C_CRC, data, address, count, crc_f, crc_dis, chip, pin)

\* SpiPacket::Last
DATA_MARK == 243

WRITE_COMPLETE == 195

\* the chip's answer to completion poll number k of write: `busy` during the
\* first `zeros` polls, then the completion byte
WritePollAnswer(chip, k) ==
    IF k <= chip.zeros THEN << chip.busy >> ELSE << WRITE_COMPLETE >>

\* SpiBus::write: retry_while!(response[0] != 0xc3, retries = 10,
\* transfer(&mut response[0..1])?)
RECURSIVE write_retry_while(_, _, _, _)
write_retry_while(run, response, r, chip) ==
    IF At(response, 0) # WRITE_COMPLETE /\ r > 0
    THEN The({ IF t.res # "Ok" THEN t
               ELSE write_retry_while(t, Set(response, 0, At(t.words, 0)), r - 1, chip) :
               t \in { transfer_in(run, "response", Slice(response, 0, 1),
                                   WritePollAnswer(chip, DATA_RETRIES - r + 1), chip) } })
    ELSE [res |-> "Ok", words |-> response, cs |-> run.cs, wire |-> run.wire]

write_end_reports_exhaustion(response) ==
    IF At(response, 0) # WRITE_COMPLETE THEN Err(<< "WriteDataError" >>) ELSE Ok(<<>>)

\* SpiBus::write: what it returns once the completion polls have ended
write_end(response) == Ok(<<>>)

\* SpiBus::write: c is the command, r the response, m the data mark, d the
\* payload, w the completion polls
write(S, data, address, count, crc_f, crc_dis, chip, pin) ==
    LET cmd == CmdDmaExtWrite
    IN
    The({ IF c.res # "Ok" THEN Returned(c, data, Err(<<c.res>>)) ELSE
      The({ IF r.res # "Ok" THEN Returned(r, data, Err(<<r.res>>))
            ELSE IF At(r.words, 0) # cmd
            THEN Returned(r, data, Err(<< "WriteDataError", cmd,
                                          SpiCommandError_from(At(r.words, 1)) >>)) ELSE
        The({ IF m.res # "Ok" THEN Returned(m, data, Err(<<m.res>>)) ELSE
          The({ IF d.res # "Ok" THEN Returned(d, d.words, Err(<<d.res>>)) ELSE
            The({ IF w.res # "Ok" THEN Returned(w, d.words, Err(<<w.res>>))
                  ELSE Returned(w, d.words, write_end(w.words)) :
              w \in { write_retry_while(d, Set(r.words, 0, 0), DATA_RETRIES, chip) } }) :
            d \in { transfer_in(m, "data", data, Zeros(Len(data)), chip) } }) :
          m \in { transfer_in(r, "data_mark", << DATA_MARK >>, << 0 >>, chip) } }) :
        r \in { transfer_in(c, "response", Zeros(RESPONSE), << chip.first, chip.second >>,
                            chip) } }) :
      c \in { command(Zeros(S), cmd, address, W32(0), count, FALSE, crc_f, crc_dis,
                      Zeros(S), ChipOutcome(chip, 1), pin) } })

\* SpiBus::write_data
write_data(data, address, count, crc_f, crc_dis, chip, pin) ==
    IF crc_dis
    THEN write(TYPE_C, data, address, count, crc_f, crc_dis, chip, pin)
    ELSE write(TYPE_C_CRC, data, address, count, crc_f, crc_dis, chip, pin)

(***************************************************************************)
(* Inputs of the bus operations and answers of the chip.                   *)
(***************************************************************************)
Addresses ==
    { W32(0), W32(48), W32(49), W32(255), W32(256), W32(4208),
      W32(786444), <<128, 129, 18, 52>> }

RegValues ==
    { W32(0), <<16, 173, 208, 158>>, <<239, 82, 47, 97>>, <<255, 255, 255, 255>> }

StatusBytes == {0, 3, 16, 255}

MarkerBytes == {243, 238, 15}

\* what the chip clocks out: `bytes` from index `pos` on, zero elsewhere
Answer(len, pos, bytes) == SetAll(Zeros(len), pos, bytes)

\* answers to a register read: echo, status, marker, then the value least
\* significant byte first, placed where a chip with or without CRC puts them
ReadAnswers(len, cmd) ==
    { Answer(len, pos, << echo, st, mk, ByteOf(v, 0), ByteOf(v, 1), ByteOf(v, 2),
                          ByteOf(v, 3) >>) :
        pos \in {4, 5}, echo \in {cmd, 255}, st \in StatusBytes, mk \in MarkerBytes,
        v \in RegValues }

\* answers to a register write: echo and status
WriteAnswers(len, cmd) ==
    { Answer(len, pos, << echo, st >>) :
        pos \in {8, 9}, echo \in {cmd, 255}, st \in StatusBytes }

\* the chip answers only when the exchange takes place
AnswersFor(outcome, len, answers) ==
    IF outcome \in {"ok", "cs_high_err"} THEN answers ELSE {Zeros(len)}

NoCall == [op |-> "none"]

NoRet == [tag |-> "none"]

BVarsIdle ==
    /\ cs = "unknown"
    /\ b_call = NoCall
    /\ b_wire = <<>>
    /\ b_ret = NoRet

\* SpiBus::new
BInit ==
    /\ crc \in BOOLEAN
    /\ crc_disabled = FALSE
    /\ BVarsIdle

\* SpiBus::init_cs
InitCs ==
    /\ b_call = NoCall
    /\ \E ok \in BOOLEAN :
         /\ cs' = IF ok THEN "high" ELSE cs
         /\ b_ret' = IF ok THEN Ok(<<>>) ELSE Err(<<"PinStateError">>)
    /\ b_call' = [op |-> "init_cs"]
    /\ b_wire' = <<>>
    /\ UNCHANGED <<crc, crc_disabled>>
    /\ UNCHANGED hvars
    /\ UNCHANGED fvars

\* SpiBus::crc_disabled
CrcDisabled ==
    /\ b_call = NoCall
    /\ crc_disabled' = TRUE
    /\ b_call' = [op |-> "crc_disabled"]
    /\ b_ret' = Ok(<<>>)
    /\ b_wire' = <<>>
    /\ UNCHANGED <<crc, cs>>
    /\ UNCHANGED hvars
    /\ UNCHANGED fvars

ReadRegister ==
    /\ b_call = NoCall
    /\ \E address \in Addresses, outcome \in TransferOutcomes :
       \E rx \in AnswersFor(outcome, IF crc_disabled THEN 11 ELSE 12,
                  ReadAnswers(IF crc_disabled THEN 11 ELSE 12,
                              read_reg_select(address).cmd)) :
         LET r == read_register(address, crc, crc_disabled, rx, outcome, cs)
         IN  /\ b_call' = [op |-> "read_register", address |-> address]
             /\ b_wire' = r.wire
             /\ b_ret' = r.ret
             /\ cs' = r.cs
    /\ UNCHANGED <<crc, crc_disabled>>
    /\ UNCHANGED hvars
    /\ UNCHANGED fvars

WriteRegister ==
    /\ b_call = NoCall
    /\ \E address \in Addresses, data \in RegValues, outcome \in TransferOutcomes :
       \E rx \in AnswersFor(outcome, IF crc_disabled THEN 10 ELSE 11,
                  WriteAnswers(IF crc_disabled THEN 10 ELSE 11,
                               write_reg_select(address).cmd)) :
         LET r == write_register(address, data, crc, crc_disabled, rx, outcome, cs)
         IN  /\ b_call' = [op |-> "write_register", address |-> address, data |-> data]
             /\ b_wire' = r.wire
             /\ b_ret' = r.ret
             /\ cs' = r.cs
    /\ UNCHANGED <<crc, crc_disabled>>
    /\ UNCHANGED hvars
    /\ UNCHANGED fvars

\* a direct call of SpiBus::command, on a zeroed buffer with room for the
\* opcode's shape, the CRC byte and a response
Command ==
    /\ b_call = NoCall
    /\ \E cmd \in Commands, address \in {W32(11), <<128, 129, 18, 52>>},
          data \in {W32(0), <<239, 82, 47, 97>>}, size \in {W32(4), W32(74565)},
          clockless \in BOOLEAN, outcome \in TransferOutcomes :
         LET S == ShapeLen(cmd) + CRC_BIT + RESPONSE
             r == command(Zeros(S), cmd, address, data, size, clockless,
                          crc, crc_disabled, Zeros(S), outcome, cs)
         IN  /\ b_call' = [op |-> "command", cmd |-> cmd, address |-> address,
                           data |-> data, size |-> size, clockless |-> clockless]
             /\ b_wire' = r.wire
             /\ b_ret' = IF r.res = "Ok" THEN Ok(<<>>) ELSE Err(<<r.res>>)
             /\ cs' = r.cs
    /\ UNCHANGED <<crc, crc_disabled>>
    /\ UNCHANGED hvars
    /\ UNCHANGED fvars

\* the longest run of polls the chip leaves unanswered
MaxZeroPolls == 11

\* the most calls of transfer one block operation makes
MaxTransfers == 14

\* the chip during a read of `len` bytes
ReadChips(len) ==
    [ fail_at : 0..MaxTransfers, fail_kind : TransferOutcomes \ {"ok"}, zeros : 0..MaxZeroPolls,
      first : {CmdDmaExtRead, 3}, second : {0, 3},
      data : { [i \in 1..len |-> 16 * i + 1] } ]

\* the chip during a write
WriteChips ==
    [ fail_at : 0..MaxTransfers, fail_kind : TransferOutcomes \ {"ok"}, zeros : 0..MaxZeroPolls,
      first : {CmdDmaExtWrite, 0}, second : {0, 3}, busy : {0} ]

\* the caller's block: `len` bytes
Block(len) == [i \in 1..len |-> 160 + i]

ReadData ==
    /\ b_call = NoCall
    /\ \E address \in { W32(86016) }, len \in {1, 4} :
       \E chip \in ReadChips(len) :
       \E r \in { read_data(Zeros(len), address, W32(len), crc, crc_disabled, chip, cs) } :
             /\ b_call' = [op |-> "read_data", address |-> address, count |-> len]
             /\ b_wire' = r.wire
             /\ b_ret' = IF r.ret.tag = "Ok" THEN Ok(r.data) ELSE r.ret
             /\ cs' = r.cs
    /\ UNCHANGED <<crc, crc_disabled>>
    /\ UNCHANGED hvars
    /\ UNCHANGED fvars

WriteData ==
    /\ b_call = NoCall
    /\ \E address \in { W32(86016) }, len \in {1, 4} :
       \E chip \in WriteChips :
       \E r \in { write_data(Block(len), address, W32(len), crc, crc_disabled, chip, cs) } :
             /\ b_call' = [op |-> "write_data", address |-> address, count |-> len]
             /\ b_wire' = r.wire
             /\ b_ret' = r.ret
             /\ cs' = r.cs
    /\ UNCHANGED <<crc, crc_disabled>>
    /\ UNCHANGED hvars
    /\ UNCHANGED fvars

\* the caller takes the result; the bus is ready for the next call
TakeResult ==
    /\ b_call # NoCall
    /\ b_call' = NoCall
    /\ b_wire' = <<>>
    /\ b_ret' = NoRet
    /\ UNCHANGED <<crc, crc_disabled, cs>>
    /\ UNCHANGED hvars
    /\ UNCHANGED fvars

BNext == InitCs \/ CrcDisabled \/ ReadRegister \/ WriteRegister \/ Command \/ TakeResult

(***************************************************************************)
(* u32 arithmetic on the four bytes of a value                             *)
(***************************************************************************)
Hi16(w) == w[1] * 256 + w[2]

Lo16(w) == w[3] * 256 + w[4]

Halves(hi, lo) == << hi \div 256, hi % 256, lo \div 256, lo % 256 >>

\* a + b: the wrapped sum, and whether the addition overflowed
Add32(a, b) ==
    LET lo == Lo16(a) + Lo16(b)
        hi == Hi16(a) + Hi16(b) + (lo \div 65536)
    IN  [val |-> Halves(hi % 65536, lo % 65536), overflow |-> hi > 65535]

\* a - b: the wrapped difference, and whether the subtraction underflowed
Sub32(a, b) ==
    LET lo == Lo16(a) - Lo16(b)
        hi == Hi16(a) - Hi16(b) - (IF lo < 0 THEN 1 ELSE 0)
    IN  [val |-> Halves((hi + 65536) % 65536, (lo + 65536) % 65536), overflow |-> hi < 0]

\* a > b
Gt32(a, b) == Hi16(a) > Hi16(b) \/ (Hi16(a) = Hi16(b) /\ Lo16(a) > Lo16(b))

\* w & 1 and (w >> 1) & 1
Bit0(w) == w[4] % 2

Bit1(w) == (w[4] \div 2) % 2

\* w & !0x00000001
ClearBit0(w) == [w EXCEPT ![4] = @ - (@ % 2)]

\* w | 2
SetBit1(w) == [w EXCEPT ![4] = BitOr(@, 2)]

\* (w >> 2) & 0xfff
SizeField_low_bits(w) == Lo16(w) % 4096

SizeField(w) == (Lo16(w) \div 4) % 4096

\* (w << 2) | 2
Shl2Or2(w) ==
    LET lo == Lo16(w) * 4
        hi == Hi16(w) * 4 + (lo \div 65536)
    IN  Halves(hi % 65536, BitOr(lo % 65536, 2))

(***************************************************************************)
(* registers.rs                                                            *)
(***************************************************************************)
WIFI_HOST_RCV_CTRL_0 == 4208

WIFI_HOST_RCV_CTRL_1 == 4228

WIFI_HOST_RCV_CTRL_2 == 4216

WIFI_HOST_RCV_CTRL_3 == 4204

WIFI_HOST_RCV_CTRL_4 == 1377280

NMI_STATE_REG == 4236

(***************************************************************************)
(* hif.rs: HostInterface.  The host interface sees each operation of the   *)
(* SpiBus as one step that returns a value or an error.  `m` is the host   *)
(* interface at work: the bus operations and callbacks made so far, the    *)
(* read context, the driver state, the command decoded and, once the       *)
(* operation has ended early, its result.  `chip` says what the chip       *)
(* answers and which bus operation fails.                                  *)
(***************************************************************************)
None == [tag |-> "None"]

Some(v) == [tag |-> "Some", val |-> v]

\* HifContext::default
HifContext_default == [read_addr |-> W32(0), read_size |-> W32(0), read_done |-> TRUE]

\* State::default
State_default ==
    [ firmware_version |-> None, mac_address |-> None, mode |-> "Station",
      status |-> "Idle", dhcp |-> TRUE, connection_info |-> None,
      scan_in_progress |-> FALSE, num_ap |-> 0, scan_result |-> None,
      system_time |-> None ]

Machine(c, st) ==
    [bus |-> <<>>, callbacks |-> <<>>, ctx |-> c, state |-> st, command |-> None,
     reg_value |-> W32(0), ret |-> NoRet]

\* no `?` has returned and nothing has panicked
Running(m) == m.ret = NoRet

BusOp(op, address, data, ok) == [op |-> op, address |-> address, data |-> data, ok |-> ok]

spi_bus_error_ignored(m, op, address, data, chip) ==
    The({ IF ~Running(x) THEN x
          ELSE [x EXCEPT !.bus = Append(@, BusOp(op, address, data,
                                                 Len(x.bus) + 1 # chip.fail_at))] :
          x \in {m} })

\* spi_bus.read_register(..)?, write_register(..)?, read_data(..)? and
\* write_data(..)?: `data` is the value or the block read or written
spi_bus(m, op, address, data, chip) ==
    The({ IF ~Running(x) THEN x
          ELSE IF Len(x.bus) + 1 = chip.fail_at
          THEN [x EXCEPT !.bus = Append(@, BusOp(op, address, data, FALSE)),
                         !.ret = Err(<< "SpiError" >>)]
          ELSE [x EXCEPT !.bus = Append(@, BusOp(op, address, data, TRUE))] :
          x \in {m} })

\* self.ctx.read_done = ..
set_read_done(m, done) ==
    The({ IF ~Running(x) THEN x ELSE [x EXCEPT !.ctx.read_done = done] : x \in {m} })

\* self.ctx.read_addr = address; self.ctx.read_size = size
set_read_packet(m, address, size) ==
    The({ IF ~Running(x) THEN x
          ELSE [x EXCEPT !.ctx.read_addr = address, !.ctx.read_size = size] :
          x \in {m} })

\* an arithmetic operation that overflowed: a panic in a build with overflow
\* checks
overflowed(m, overflow, checks) ==
    The({ IF Running(x) /\ overflow /\ checks THEN [x EXCEPT !.ret = Panic] ELSE x :
          x \in {m} })

\* HostInterface::finish_reception
finish_reception(m, chip) ==
    LET done == set_read_done(m, TRUE)
        value == spi_bus(done, "read_register", W32(WIFI_HOST_RCV_CTRL_0), chip.ctrl0_fin, chip)
    IN  spi_bus(value, "write_register", W32(WIFI_HOST_RCV_CTRL_0), SetBit1(chip.ctrl0_fin),
                chip)

\* the block the chip holds at the address read: `len` bytes
Payload(chip, len) == [i \in 1..len |-> IF i = 1 THEN chip.b0 ELSE 0]

receive_end_always_finishes(m, address, len, chip, checks) ==
    The({ IF ~Running(x) THEN x ELSE finish_reception(x, chip) : x \in {m} })

\* HostInterface::receive, after the block read: the end-of-packet test
receive_end(m, address, len, chip, checks) ==
    The({ IF ~Running(x) THEN x
          ELSE LET packet_end == Add32(x.ctx.read_addr, x.ctx.read_size)
                   read_end == Add32(address, W32(len))
                   left == Sub32(packet_end.val, read_end.val)
               IN  IF checks /\ (packet_end.overflow \/ read_end.overflow \/ left.overflow)
                   THEN [x EXCEPT !.ret = Panic]
                   ELSE IF left.val = W32(0) THEN finish_reception(x, chip)
                   ELSE x :
          x \in {m} })

receive_size_unchecked(m, address, len, chip, checks) ==
    receive_end(spi_bus(m, "read_data", address, Payload(chip, len), chip),
                address, len, chip, checks)

\* HostInterface::receive, into a buffer of `len` bytes
receive(m, address, len, chip, checks) ==
    The({ IF ~Running(x) THEN x
          ELSE IF Gt32(W32(len), x.ctx.read_size)
          THEN [x EXCEPT !.ret = Err(<< "SizeMismatch", len, x.ctx.read_size >>)]
          ELSE receive_end(spi_bus(x, "read_data", address, Payload(chip, len), chip),
                           address, len, chip, checks) :
          x \in {m} })

SEND_RETRIES == 100

\* HostInterface::send: reg_value = spi_bus.read_register(WIFI_HOST_RCV_CTRL_2)?
\* The chip shows the busy bit during its first `busy` reads of the register.
send_read_busy(m, chip) ==
    The({ The({ IF Running(y) THEN [y EXCEPT !.reg_value = y.bus[Len(y.bus)].data]
                ELSE y :
                y \in { spi_bus(x, "read_register", W32(WIFI_HOST_RCV_CTRL_2),
                                IF k + 1 <= chip.busy THEN W32(2) ELSE W32(0), chip) } }) :
          x \in {m},
          k \in { Cardinality({ i \in 1..Len(m.bus) :
                                  /\ m.bus[i].op = "read_register"
                                  /\ m.bus[i].address = W32(WIFI_HOST_RCV_CTRL_2) }) } })

\* retry_while!(reg_value & 2 != 0, ..): one turn of the loop, taken while
\* the condition holds
send_retry_body(m, chip) ==
    The({ IF Running(x) /\ Bit1(x.reg_value) # 0 THEN send_read_busy(x, chip) ELSE x :
          x \in {m} })

\* retry_while!(.., retries = r, ..): r turns, one after the other (the
\* first half of them, then the rest)
RECURSIVE send_retry_while(_, _, _)
send_retry_while(m, r, chip) ==
    The({ IF n = 0 THEN x
          ELSE IF n = 1 THEN send_retry_body(x, chip)
          ELSE send_retry_while(send_retry_while(x, n \div 2, chip), n - (n \div 2), chip) :
          n \in {r}, x \in {m} })

send_commit_unshifted(address) == SetBit1(address)

\* HostInterface::send: the value that commits the packet
send_commit(address) == Shl2Or2(address)

\* HostInterface::send: address + HIF_HEADER_SIZE as u32 + offset
send_ctrl_address(address, offset) ==
    LET a == Add32(address, W32(HIF_HEADER_SIZE))
        b == Add32(a.val, offset)
    IN  [val |-> b.val, overflow |-> a.overflow \/ b.overflow]

\* the result of an operation that ran to its end
returned(m, value) ==
    The({ IF Running(x) THEN [x EXCEPT !.ret = Ok(value)] ELSE x : x \in {m} })

\* HostInterface::send
send(m, header, data_buffer, ctrl_buffer, chip, checks) ==
    LET offset == W32(Len(data_buffer))
        address == chip.dest
        data_at == Add32(address, W32(HIF_HEADER_SIZE))
        ctrl_at == send_ctrl_address(address, offset)
        s1 == spi_bus(Machine(m.ctx, m.state), "write_register", W32(NMI_STATE_REG),
                      HifHeader_into_u32(header), chip)
        s2 == spi_bus(s1, "write_register", W32(WIFI_HOST_RCV_CTRL_2), W32(2), chip)
        s3 == send_read_busy(s2, chip)
        s4 == send_retry_while(s3, SEND_RETRIES, chip)
        s5 == spi_bus(s4, "read_register", W32(WIFI_HOST_RCV_CTRL_4), address, chip)
        s6 == spi_bus(s5, "write_data", address, HifHeader_into_bytes(header), chip)
        s7 == IF data_buffer # <<>>
              THEN spi_bus(overflowed(s6, data_at.overflow, checks), "write_data",
                           data_at.val, data_buffer, chip)
              ELSE s6
        s8 == IF ctrl_buffer # <<>>
              THEN spi_bus(overflowed(s7, ctrl_at.overflow, checks), "write_data",
                           ctrl_at.val, ctrl_buffer, chip)
              ELSE s7
        s9 == spi_bus(s8, "write_register", W32(WIFI_HOST_RCV_CTRL_3), send_commit(address),
                      chip)
    IN  returned(s9, <<>>)

\* group_ids
WIFI == 1

IP == 2

\* the discriminants of enum WifiCommand (hif.rs) and of enum SocketCommand
WifiCommands == (1..13) \cup (15..36) \cup (40..47) \cup (49..58)

SocketCommands == 65..85

\* WifiCommand::Invalid and SocketCommand::Invalid: the variant after the
\* last numbered one
WifiCommand_Invalid == 59

SocketCommand_Invalid == 86

WifiCommand_from_unchecked(value) == value

\* impl From<u8> for WifiCommand and for SocketCommand (derive FromByte)
WifiCommand_from(value) == IF value \in WifiCommands THEN value ELSE WifiCommand_Invalid

SocketCommand_from(value) ==
    IF value \in SocketCommands THEN value ELSE SocketCommand_Invalid

RespConnInfo == 6

RespScanDone == 17

RespScanResult == 19

RespGetSysTime == 27

RespConStateChanged == 44

\* impl From<u8> for ConnectionState
ConnectionState_from(code) ==
    CASE code = 0 -> "Connected"
      [] code = 1 -> "Disconnected"
      [] OTHER -> "Undefined"

status_after_ignoring_mode(current_state, mode, status) ==
    CASE current_state = "Connected" -> "Connected"
      [] current_state = "Disconnected" -> "Disconnected"
      [] OTHER -> status

\* wifi_callback, RespConStateChanged: the status after a state change
status_after(current_state, mode, status) ==
    CASE current_state = "Connected" /\ mode = "Station" -> "Connected"
      [] current_state = "Connected" /\ mode = "Ap" -> "ApConnected"
      [] current_state = "Disconnected" /\ mode = "Station" -> "Disconnected"
      [] current_state = "Disconnected" /\ mode = "Ap" -> "ApListening"
      [] OTHER -> status

\* impl From<[u8; 8]> for SystemTime
SystemTime_from(data) ==
    [ year |-> BitOr(At(data, 1) * 256, At(data, 0)), month |-> At(data, 2),
      day |-> At(data, 3), hour |-> At(data, 4), minute |-> At(data, 5),
      second |-> At(data, 6) ]

\* wifi_callback: what each opcode does with the block it received
wifi_state(st, opcode, data_buf) ==
    CASE opcode = RespConStateChanged ->
            [st EXCEPT !.status = status_after(ConnectionState_from(At(data_buf, 0)),
                                               st.mode, @)]
      [] opcode = RespGetSysTime ->
            IF SystemTime_from(data_buf).year > 0
            THEN [st EXCEPT !.system_time = Some(SystemTime_from(data_buf))]
            ELSE st
      [] opcode = RespConnInfo -> [st EXCEPT !.connection_info = Some(data_buf)]
      [] opcode = RespScanDone ->
            [st EXCEPT !.num_ap = At(data_buf, 0), !.scan_in_progress = FALSE]
      [] opcode = RespScanResult -> [st EXCEPT !.scan_result = Some(data_buf)]
      [] OTHER -> st

\* wifi_callback: the size of the buffer each opcode receives into
wifi_buffer_len(opcode) ==
    CASE opcode = RespConStateChanged -> 4
      [] opcode = RespGetSysTime -> 8
      [] opcode = RespConnInfo -> 48
      [] opcode = RespScanDone -> 4
      [] opcode = RespScanResult -> 44
      [] OTHER -> 0

called(m, fn, opcode, data_size, address) ==
    The({ IF ~Running(x) THEN x
          ELSE [x EXCEPT !.callbacks = Append(@, [fn |-> fn, opcode |-> opcode,
                                                  data_size |-> data_size,
                                                  address |-> address])] :
          x \in {m} })

\* HostInterface::wifi_callback
wifi_callback(m, opcode, data_size, address, chip, checks) ==
    LET len == wifi_buffer_len(opcode)
        c == called(m, "wifi_callback", opcode, data_size, address)
    IN  IF len = 0 THEN c
        ELSE The({ IF ~Running(x) THEN x
                   ELSE [x EXCEPT !.state = wifi_state(@, opcode, Payload(chip, len))] :
                   x \in { receive(c, address, len, chip, checks) } })

ip_callback_disconnects(m, opcode, data_size, address) ==
    The({ IF ~Running(x) THEN x ELSE [x EXCEPT !.state.status = "Disconnected"] :
          x \in { called(m, "ip_callback", opcode, data_size, address) } })

\* HostInterface::ip_callback
ip_callback(m, opcode, data_size, address) ==
    called(m, "ip_callback", opcode, data_size, address)

\* command = Some(Command::from(..))
set_command(m, decoded) ==
    The({ IF ~Running(x) THEN x ELSE [x EXCEPT !.command = Some(decoded)] : x \in {m} })

\* HostInterface::isr: the match on header.gid
isr_dispatch(m, header, address, chip, checks) ==
    LET underflow == header.length < HIF_HEADER_SIZE
        data_size == U16(header.length + 65536 - HIF_HEADER_SIZE)
        data_at == Add32(address, W32(HIF_HEADER_SIZE))
        args == overflowed(m, underflow \/ data_at.overflow, checks)
    IN  CASE header.gid = WIFI ->
                set_command(wifi_callback(args, WifiCommand_from(header.op), data_size,
                                          data_at.val, chip, checks),
                            << "WifiCommand", WifiCommand_from(header.op) >>)
          [] header.gid = IP ->
                set_command(ip_callback(args, SocketCommand_from(header.op), data_size,
                                        data_at.val),
                            << "SocketCommand", SocketCommand_from(header.op) >>)
          [] OTHER -> m

\* HostInterface::isr: the packet of `size` bytes the chip announced
isr_packet(m, size, chip, checks) ==
    LET address == chip.src
        p1 == spi_bus(m, "read_register", W32(WIFI_HOST_RCV_CTRL_1), address, chip)
        p2 == set_read_packet(p1, address, W32(size))
        p3 == spi_bus(p2, "read_data", address, chip.header, chip)
    IN  isr_dispatch(p3, HifHeader_from(chip.header), address, chip, checks)

isr_new_data_always(reg_value) == TRUE

\* HostInterface::isr: reg_value & 0x1 != 0
isr_new_data(reg_value) == Bit0(reg_value) # 0

\* HostInterface::isr: if !self.ctx.read_done { self.finish_reception(spi_bus)?; }
isr_finish(m, chip) ==
    The({ IF Running(x) /\ ~x.ctx.read_done THEN finish_reception(x, chip) ELSE x :
          x \in {m} })

\* HostInterface::isr
isr(m, chip, checks) ==
    LET reg_value == ClearBit0(chip.ctrl0)
        size == SizeField(reg_value)
        s1 == spi_bus(Machine(m.ctx, m.state), "read_register", W32(WIFI_HOST_RCV_CTRL_0),
                      chip.ctrl0, chip)
        s2 == spi_bus(s1, "write_register", W32(WIFI_HOST_RCV_CTRL_0), reg_value, chip)
        s3 == set_read_done(s2, FALSE)
        s4 == IF size > 0 THEN isr_packet(s3, size, chip, checks) ELSE s3
        s5 == IF isr_new_data(chip.ctrl0) THEN isr_finish(s4, chip) ELSE s1
    IN  The({ returned(x, x.command) : x \in {s5} })

CORT_HOST_COMM == 16

HOST_CORT_COMM == 11

WAKE_CLK_REG == 1

\* HostInterface::_chip_sleep: one turn of its loop, and after the turn that
\* reads bit 0 clear the rest of the method; m.ret stays NoRet while the loop
\* goes on
chip_sleep_turn(m, chip) ==
    LET poll == spi_bus(Machine(m.ctx, m.state), "read_register", W32(CORT_HOST_COMM),
                        chip.cort_host, chip)
        r1 == spi_bus(poll, "read_register", W32(WAKE_CLK_REG), chip.wake_clk, chip)
        r2 == IF Bit1(chip.wake_clk) # 0
              THEN spi_bus(r1, "write_register", W32(WAKE_CLK_REG),
                           [chip.wake_clk EXCEPT ![4] = @ - 2], chip)
              ELSE r1
        r3 == spi_bus(r2, "read_register", W32(HOST_CORT_COMM), chip.host_cort, chip)
        r4 == IF Bit0(chip.host_cort) # 0
              THEN spi_bus(r3, "write_register", W32(HOST_CORT_COMM),
                           ClearBit0(chip.host_cort), chip)
              ELSE r3
    IN  IF Running(poll) /\ Bit0(chip.cort_host) # 0 THEN poll ELSE returned(r4, <<>>)

(***************************************************************************)
(* lib.rs: Atwinc1500::initialize.  The pin operations and crc_disabled    *)
(* are recorded among the bus operations.  `chip` says which read of a     *)
(* polled register first returns the awaited value (0: none).              *)
(***************************************************************************)
EFUSE_REG == 4116

NMI_PIN_MUX_0 == 5128

rNMI_GP_REG_1 == 5280

rNMI_GP_REG_2 == 786440

NMI_INTR_REG_BASE == 6656

NMI_SPI_PROTOCOL_CONFIG == 59428

BOOTROM_REG == 786444

M2M_WAIT_FOR_HOST_REG == 133052

NMI_REV_REG == 133036

NMI_REV_REG_ATE == 4168

FINISH_BOOT_VAL == 279826590

DRIVER_VER_INFO == 324145968

CONF_VAL == 258

FINISH_INIT_VAL == 39003702

RECURSIVE initialize_retry_while_unconditional(_, _, _, _, _, _)
initialize_retry_while_unconditional(m, r, address, awaited, at, chip) ==
    The({ IF n = 0 \/ ~Running(x) THEN x
          ELSE initialize_retry_while_unconditional(
                   spi_bus(x, "read_register", address,
                           IF at # 0 /\ Len(x.bus) + 1 >= at THEN awaited ELSE W32(0), chip),
                   n - 1, address, awaited, at, chip) :
          n \in {r}, x \in {m} })

\* retry_while!(<condition on the value read>, retries = r, { value =
\* self.spi_bus.read_register(address)?; self.delay.delay_ms(1000); }) with
\* the value in m.reg_value: (value & 0x80000000) == 0 for EFUSE_REG,
\* value != awaited for the other registers.  Read number `at` of the loop
\* (counted by its place among the bus operations) and those after it return
\* `awaited`.
RECURSIVE initialize_retry_while(_, _, _, _, _, _)
initialize_retry_while(m, r, address, awaited, at, chip) ==
    The({ IF n = 0 \/ ~Running(x) THEN x
          ELSE IF address = W32(EFUSE_REG) /\ x.reg_value[1] >= 128 THEN x
          ELSE IF address # W32(EFUSE_REG) /\ x.reg_value = awaited THEN x
          ELSE initialize_retry_while(
                   The({ IF Running(y) THEN [y EXCEPT !.reg_value = y.bus[Len(y.bus)].data]
                         ELSE y :
                         y \in { spi_bus(x, "read_register", address,
                                         IF at # 0 /\ Len(x.bus) + 1 >= at
                                         THEN awaited ELSE W32(0), chip) } }),
                   n - 1, address, awaited, at, chip) :
          n \in {r}, x \in {m} })

disable_crc_whatever_crc(m, crc_on, chip) ==
    The({ IF ~Running(y) THEN y
          ELSE [y EXCEPT !.bus = Append(@, BusOp("crc_disabled", W32(0), <<>>, TRUE))] :
          y \in { spi_bus(m, "write_register", W32(NMI_SPI_PROTOCOL_CONFIG), W32(82),
                          chip) } })

\* Atwinc1500::disable_crc; the call of SpiBus::crc_disabled, which cannot
\* fail, is recorded among the bus operations
disable_crc(m, crc_on, chip) ==
    IF crc_on THEN m
    ELSE The({ IF ~Running(y) THEN y
               ELSE [y EXCEPT !.bus = Append(@, BusOp("crc_disabled", W32(0), <<>>, TRUE))] :
               y \in { spi_bus(m, "write_register", W32(NMI_SPI_PROTOCOL_CONFIG), W32(82),
                               chip) } })

\* Atwinc1500::initialize with init_pins, enable_chip_interrupt,
\* get_firmware_version and get_mac_address
initialize(m, crc_on, chip) ==
    LET START_FIRMWARE == << 239, 82, 47, 97 >>
        M2M_ATE_FW_IS_UP_VALUE == << 215, 93, 193, 195 >>
        pin(x, op) ==
            The({ IF ~Running(y) THEN y
                  ELSE IF Len(y.bus) + 1 = chip.fail_at
                  THEN [y EXCEPT !.bus = Append(@, BusOp(op, W32(0), <<>>, FALSE)),
                                 !.ret = Err(<< "PinStateError" >>)]
                  ELSE [y EXCEPT !.bus = Append(@, BusOp(op, W32(0), <<>>, TRUE))] :
                  y \in {x} })
        zeroed(x) == The({ [y EXCEPT !.reg_value = W32(0)] : y \in {x} })
        first(x, address) == Len(x.bus) + 1
        \* init_pins
        p1 == pin(Machine(m.ctx, m.state), "init_cs")
        p2 == pin(p1, "reset.set_low")
        p3 == pin(p2, "reset.set_high")
        \* disable_crc
        c1 == disable_crc(p3, crc_on, chip)
        \* the three waits and the writes between them
        e1 == The({ initialize_retry_while(zeroed(x), 10, W32(EFUSE_REG),
                                           << 128, 0, 0, 0 >>,
                                           IF chip.efuse_at = 0 THEN 0
                                           ELSE Len(x.bus) + chip.efuse_at, chip) :
                    x \in {c1} })
        w1 == spi_bus(e1, "read_register", W32(M2M_WAIT_FOR_HOST_REG), chip.wait, chip)
        b1 == IF Bit0(chip.wait) = 0
              THEN The({ initialize_retry_while(zeroed(x), 3, W32(BOOTROM_REG),
                                                W32(FINISH_BOOT_VAL),
                                                IF chip.bootrom_at = 0 THEN 0
                                                ELSE Len(x.bus) + chip.bootrom_at, chip) :
                         x \in {w1} })
              ELSE w1
        d1 == spi_bus(b1, "write_register", W32(NMI_STATE_REG), W32(DRIVER_VER_INFO), chip)
        d2 == spi_bus(d1, "write_register", W32(rNMI_GP_REG_1), W32(CONF_VAL), chip)
        d3 == spi_bus(d2, "write_register", W32(BOOTROM_REG), START_FIRMWARE, chip)
        s1 == The({ initialize_retry_while(zeroed(x), 20, W32(NMI_STATE_REG),
                                           W32(FINISH_INIT_VAL),
                                           IF chip.state_at = 0 THEN 0
                                           ELSE Len(x.bus) + chip.state_at, chip) :
                    x \in {d3} })
        s2 == spi_bus(s1, "write_register", W32(NMI_STATE_REG), W32(0), chip)
        \* enable_chip_interrupt
        i1 == spi_bus(s2, "read_register", W32(NMI_PIN_MUX_0), chip.mux, chip)
        i2 == spi_bus(i1, "write_register", W32(NMI_PIN_MUX_0),
                      [chip.mux EXCEPT ![3] = BitOr(@, 1)], chip)
        i3 == spi_bus(i2, "read_register", W32(NMI_INTR_REG_BASE), chip.base, chip)
        i4 == spi_bus(i3, "write_register", W32(NMI_INTR_REG_BASE),
                      [chip.base EXCEPT ![2] = BitOr(@, 1)], chip)
        \* get_firmware_version
        v1 == spi_bus(i4, "read_register", W32(NMI_REV_REG), chip.rev, chip)
        v2 == IF chip.rev = M2M_ATE_FW_IS_UP_VALUE
              THEN spi_bus(v1, "read_register", W32(NMI_REV_REG_ATE), chip.rev_ate, chip)
              ELSE v1
        reg_value == IF chip.rev = M2M_ATE_FW_IS_UP_VALUE THEN chip.rev_ate ELSE chip.rev
        fw_vers == << reg_value[3], reg_value[4] \div 16, reg_value[4] % 16 >>
        v3 == IF m.state.firmware_version # None THEN i4
              ELSE The({ IF Running(x) THEN [x EXCEPT !.state.firmware_version = Some(fw_vers)]
                         ELSE x :
                         x \in {v2} })
        \* get_mac_address
        a0 == [chip.gp_reg_2 EXCEPT ![2] = BitOr(@, 3)]
        a1 == [combine_bytes_lsb(SubSeq(chip.mac_data, 1, 4))
                   EXCEPT ![1] = 0, ![2] = BitOr(0, 3)]
        g1 == spi_bus(v3, "read_register", W32(rNMI_GP_REG_2), chip.gp_reg_2, chip)
        g2 == spi_bus(g1, "read_data", a0, chip.mac_data, chip)
        g3 == spi_bus(g2, "read_data", a1, chip.mac, chip)
        g4 == IF m.state.mac_address # None THEN v3
              ELSE The({ IF Running(x) THEN [x EXCEPT !.state.mac_address = Some(chip.mac)]
                         ELSE x :
                         x \in {g3} })
    IN  returned(g4, <<>>)

(***************************************************************************)
(* lib.rs: Atwinc1500::request_network_scan                                *)
(***************************************************************************)
ReqScan == 16

request_network_scan_unguarded(m, channel, chip, checks) ==
    The({ IF s.ret = Ok(<<>>) THEN [s EXCEPT !.state.scan_in_progress = TRUE] ELSE s :
          s \in { send(m, HifHeader_new(WIFI, ReqScan, 4, checks), << channel, 0, 0, 0 >>,
                       <<>>, chip, checks) } })

\* Atwinc1500::request_network_scan; the four bytes sent are
\* ScanChannel::new(channel).into(), with passive_scan_time 0
request_network_scan(m, channel, chip, checks) ==
    IF m.state.scan_in_progress
    THEN [Machine(m.ctx, m.state) EXCEPT !.ret = Err(<< "ScanError", "ScanInProgress" >>)]
    ELSE The({ IF s.ret = Ok(<<>>) THEN [s EXCEPT !.state.scan_in_progress = TRUE] ELSE s :
               s \in { send(m, HifHeader_new(WIFI, ReqScan, 4, checks),
                            << channel, 0, 0, 0 >>, <<>>, chip, checks) } })

(***************************************************************************)
(* wifi.rs: Connection and the old connection format                       *)
(***************************************************************************)
MAX_SSID_LEN == 33

MAX_PSK_LEN == 65

USER_NAME_MAX == 21

PASSWORD_MAX == 41

CONN_HEADER_LEN == 108

SecurityType_Open == 1

SecurityType_WpaPsk == 2

SecurityType_Sec8021x == 4

\* Connection::open(ssid, ..), Connection::wpa_psk(ssid, first, ..) and
\* Connection::wpa_enterprise(ssid, first, second, ..), told apart by the
\* security type they set: each slice is copied to the front of a zeroed
\* array, which panics when the slice is longer than the array.
Connection_new(sec_type, ssid, first, second, channel, save_creds) ==
    LET fits(src, n) == Len(src) <= n
        arr(src, n) == SetAll(Zeros(n), 0, src)
        options == [sec_type |-> sec_type, save_creds |-> save_creds, channel |-> channel]
    IN  CASE sec_type = SecurityType_Open ->
                IF fits(ssid, MAX_SSID_LEN)
                THEN [tag |-> "Open", ssid |-> arr(ssid, MAX_SSID_LEN), opts |-> options]
                ELSE Panic
          [] sec_type = SecurityType_WpaPsk ->
                IF fits(ssid, MAX_SSID_LEN) /\ fits(first, MAX_PSK_LEN)
                THEN [tag |-> "WpaPsk", ssid |-> arr(ssid, MAX_SSID_LEN),
                      pass |-> arr(first, MAX_PSK_LEN), opts |-> options]
                ELSE Panic
          [] sec_type = SecurityType_Sec8021x ->
                IF /\ fits(ssid, MAX_SSID_LEN)
                   /\ fits(first, USER_NAME_MAX)
                   /\ fits(second, PASSWORD_MAX)
                THEN [tag |-> "WpaEnterprise", ssid |-> arr(ssid, MAX_SSID_LEN),
                      user |-> arr(first, USER_NAME_MAX),
                      pass |-> arr(second, PASSWORD_MAX), opts |-> options]
                ELSE Panic

OldConnection_from_ssid_at_71(connection) ==
    LET h0 == Zeros(CONN_HEADER_LEN)
        h1 == CASE connection.tag = "Open" -> h0
                [] connection.tag = "WpaPsk" -> SetAll(h0, 0, connection.pass)
                [] connection.tag = "WpaEnterprise" ->
                      SetAll(SetAll(h0, 0, connection.user), USER_NAME_MAX, connection.pass)
        h2 == Set(h1, 65, connection.opts.sec_type)
        h3 == Set(h2, 68, connection.opts.channel)
        h4 == SetAll(h3, 71, connection.ssid)
    IN  Set(h4, 103, connection.opts.save_creds)

\* impl From<Connection> for OldConnection
OldConnection_from(connection) ==
    LET h0 == Zeros(CONN_HEADER_LEN)
        h1 == CASE connection.tag = "Open" -> h0
                [] connection.tag = "WpaPsk" -> SetAll(h0, 0, connection.pass)
                [] connection.tag = "WpaEnterprise" ->
                      SetAll(SetAll(h0, 0, connection.user), USER_NAME_MAX, connection.pass)
        h2 == Set(h1, 65, connection.opts.sec_type)
        h3 == Set(h2, 68, connection.opts.channel)
        h4 == SetAll(h3, 70, connection.ssid)
    IN  Set(h4, 103, connection.opts.save_creds)

(***************************************************************************)
(* Inputs of the host interface and answers of the chip.                   *)
(***************************************************************************)
\* the longest run of busy answers: one more than send waits for
MaxBusyReads == 101

\* the last bus operation of a call that may fail
MaxFailAt == 8

SendChips ==
    [ fail_at : 0..MaxFailAt, busy : {0, 1, MaxBusyReads - 1, MaxBusyReads},
      dest : { W32(86016), << 255, 255, 255, 252 >> } ]

\* the chip during isr.  Receive-control words: no new data (with and
\* without a size), new data of size 0, 2, 12 and 20
IsrChips ==
    [ fail_at : 0..MaxFailAt,
      ctrl0 : { W32(0), W32(48), W32(1), W32(9), W32(49), W32(81) },
      src : { W32(86016) },
      header : { << gid, op, 0, len >> : gid \in {WIFI, IP, 3},
                                         op \in {RespConStateChanged, RespScanDone, 65},
                                         len \in {12, 4} },
      b0 : {0, 1}, ctrl0_fin : { W32(48) } ]

\* HostInterface::new and State::default
FVarsIdle ==
    /\ ctx = HifContext_default
    /\ state = State_default
    /\ f_call = NoCall
    /\ f_bus = <<>>
    /\ f_callbacks = <<>>
    /\ f_ret = NoRet

Send ==
    /\ f_call = NoCall
    /\ \E header \in { Header(WIFI, 16, 12), Header(WIFI, 43, 8) },
          data_buffer \in { <<>>, << 1, 0, 0, 0 >> },
          ctrl_buffer \in { <<>>, << 7, 7 >> }, chip \in SendChips :
       \E r \in { send(Machine(ctx, state), header, data_buffer, ctrl_buffer, chip,
                       overflow_panics) } :
         /\ f_call' = [op |-> "send", header |-> header, data_buffer |-> data_buffer,
                       ctrl_buffer |-> ctrl_buffer, ctx |-> ctx, state |-> state]
         /\ f_bus' = r.bus
         /\ f_callbacks' = r.callbacks
         /\ f_ret' = r.ret
         /\ ctx' = r.ctx
         /\ state' = r.state
    /\ UNCHANGED overflow_panics
    /\ UNCHANGED hvars
    /\ UNCHANGED bvars

Isr ==
    /\ f_call = NoCall
    /\ \E chip \in IsrChips :
       \E r \in { isr(Machine(ctx, state), chip, overflow_panics) } :
         /\ f_call' = [op |-> "isr", ctx |-> ctx, state |-> state]
         /\ f_bus' = r.bus
         /\ f_callbacks' = r.callbacks
         /\ f_ret' = r.ret
         /\ ctx' = r.ctx
         /\ state' = r.state
    /\ UNCHANGED overflow_panics
    /\ UNCHANGED hvars
    /\ UNCHANGED bvars

\* the caller takes the result once the call has returned; a panic has ended
\* the program
FTakeResult ==
    /\ f_call # NoCall
    /\ f_ret # NoRet
    /\ f_ret # Panic
    /\ f_call' = NoCall
    /\ f_bus' = <<>>
    /\ f_callbacks' = <<>>
    /\ f_ret' = NoRet
    /\ UNCHANGED <<overflow_panics, ctx, state>>
    /\ UNCHANGED hvars
    /\ UNCHANGED bvars

\* the turns of the loop of _chip_sleep the model tells apart
MaxSleepPolls == 3

\* HostInterface::_chip_sleep, one turn of its loop at a time: the call
\* begins with the first turn and goes on while it has not returned
ChipSleep ==
    /\ f_call = NoCall \/ (f_call.op = "chip_sleep" /\ f_ret = NoRet)
    /\ \E chip \in [ fail_at : 0..5, cort_host : { W32(0), W32(1), W32(3) },
                     wake_clk : { W32(0), W32(2) }, host_cort : { W32(0), W32(1) } ] :
       \E r \in { chip_sleep_turn(Machine(ctx, state), chip) } :
         /\ f_call' = [op |-> "chip_sleep",
                       polls |-> IF f_call = NoCall THEN 1
                                 ELSE IF f_call.polls < MaxSleepPolls
                                 THEN f_call.polls + 1 ELSE MaxSleepPolls]
         /\ f_bus' = r.bus
         /\ f_ret' = r.ret
    /\ UNCHANGED <<overflow_panics, ctx, state, f_callbacks>>
    /\ UNCHANGED hvars
    /\ UNCHANGED bvars

\* Connection::open, wpa_psk and wpa_enterprise followed by .into(): the
\* caller's slices are bytes of any length
IntoOldConnection ==
    /\ f_call = NoCall
    /\ \E sec_type \in {SecurityType_Open, SecurityType_WpaPsk, SecurityType_Sec8021x},
          ssid \in { <<>>, << 116 >>,
                     << 116, 104, 105, 115, 105, 115, 109, 121, 115, 115, 105, 100 >>,
                     [i \in 1..MAX_SSID_LEN |-> 64 + i],
                     [i \in 1..(MAX_SSID_LEN + 1) |-> 64 + i] },
          long \in BOOLEAN, channel \in {1, 6, 14, 255}, save_creds \in {0, 1, 255} :
         LET first == IF sec_type = SecurityType_Open THEN <<>>
                      ELSE IF sec_type = SecurityType_WpaPsk
                      THEN [i \in 1..(IF long THEN MAX_PSK_LEN ELSE 12) |-> 128 + i]
                      ELSE [i \in 1..(IF long THEN USER_NAME_MAX ELSE 16) |-> 128 + i]
             second == IF sec_type = SecurityType_Sec8021x
                       THEN [i \in 1..(IF long THEN PASSWORD_MAX ELSE 16) |-> 192 + i]
                       ELSE <<>>
         IN  \E r \in { Connection_new(sec_type, ssid, first, second, channel, save_creds) } :
               /\ f_call' = [op |-> "old_connection", sec_type |-> sec_type, ssid |-> ssid,
                             first |-> first, second |-> second, channel |-> channel,
                             save_creds |-> save_creds]
               /\ f_ret' = IF r = Panic THEN Panic ELSE Ok(OldConnection_from(r))
    /\ UNCHANGED <<overflow_panics, ctx, state, f_bus, f_callbacks>>
    /\ UNCHANGED hvars
    /\ UNCHANGED bvars

\* Atwinc1500::request_network_scan
RequestNetworkScan ==
    /\ f_call = NoCall
    /\ \E channel \in {1, 255}, chip \in SendChips :
       \E r \in { request_network_scan(Machine(ctx, state), channel, chip, overflow_panics) } :
         /\ f_call' = [op |-> "request_network_scan", channel |-> channel, ctx |-> ctx,
                       state |-> state]
         /\ f_bus' = r.bus
         /\ f_callbacks' = r.callbacks
         /\ f_ret' = r.ret
         /\ ctx' = r.ctx
         /\ state' = r.state
    /\ UNCHANGED overflow_panics
    /\ UNCHANGED hvars
    /\ UNCHANGED bvars

\* Atwinc1500::initialize
Initialize ==
    /\ f_call = NoCall
    /\ b_call = NoCall
    /\ \E chip \in [ fail_at : 0..MaxFailAt, efuse_at : {0, 1, 2}, wait : { W32(0), W32(1) },
                     bootrom_at : 0..3, state_at : {0, 1, 2},
                     mux : { W32(0) }, base : { W32(0) },
                     rev : { << 0, 0, 19, 82 >> }, rev_ate : { W32(0) },
                     gp_reg_2 : { W32(4660) }, mac_data : { << 120, 86, 0, 0, 0, 0, 0, 0 >> },
                     mac : { << 248, 240, 5, 1, 2, 3 >> } ] :
       \E r \in { initialize(Machine(ctx, state), crc, chip) } :
         /\ f_call' = [op |-> "initialize", state |-> state, crc_disabled |-> crc_disabled]
         /\ f_bus' = r.bus
         /\ f_ret' = r.ret
         /\ state' = r.state
         /\ crc_disabled' =
               (crc_disabled \/ \E i \in 1..Len(r.bus) : r.bus[i].op = "crc_disabled")
         /\ cs' = IF r.bus[1].ok THEN "high" ELSE cs
    /\ UNCHANGED <<overflow_panics, ctx, f_callbacks, crc, b_call, b_wire, b_ret>>
    /\ UNCHANGED hvars

\* HostInterface::receive called on its own, into a buffer of `len` bytes
Receive ==
    /\ f_call = NoCall
    /\ \E address \in { W32(86016), W32(86024), W32(86028) }, len \in {4, 12, 20},
          chip \in [ fail_at : 0..3, b0 : {0}, ctrl0_fin : { W32(48) } ] :
       \E r \in { returned(receive(Machine(ctx, state), address, len, chip,
                                   overflow_panics), <<>>) } :
         /\ f_call' = [op |-> "receive", address |-> address, len |-> len,
                       ctx |-> ctx, state |-> state]
         /\ f_bus' = r.bus
         /\ f_callbacks' = r.callbacks
         /\ f_ret' = r.ret
         /\ ctx' = r.ctx
         /\ state' = r.state
    /\ UNCHANGED overflow_panics
    /\ UNCHANGED hvars
    /\ UNCHANGED bvars

\* HostInterface::wifi_callback called on its own with the opcode decoded
\* from a byte
WifiCallback ==
    /\ f_call = NoCall
    /\ \E byte \in 0..255 :
       \E chip \in [ fail_at : {0, 1},
                     b0 : IF byte = RespConStateChanged THEN {0, 1, 255} ELSE {0},
                     ctrl0_fin : { W32(48) } ] :
       \E r \in { returned(wifi_callback(Machine(ctx, state), WifiCommand_from(byte), 4,
                                         W32(86024), chip, overflow_panics), <<>>) } :
         /\ f_call' = [op |-> "wifi_callback", byte |-> byte, ctx |-> ctx,
                       state |-> state]
         /\ f_bus' = r.bus
         /\ f_callbacks' = r.callbacks
         /\ f_ret' = r.ret
         /\ ctx' = r.ctx
         /\ state' = r.state
    /\ UNCHANGED overflow_panics
    /\ UNCHANGED hvars
    /\ UNCHANGED bvars

\* State::_set_mode
SetMode ==
    /\ f_call = NoCall
    /\ \E mode \in {"Reset", "Station", "Provisioning", "Ap"} :
         state' = [state EXCEPT !.mode = mode]
    /\ UNCHANGED <<overflow_panics, ctx, f_call, f_bus, f_callbacks, f_ret>>
    /\ UNCHANGED hvars
    /\ UNCHANGED bvars

(***************************************************************************)
(* Specifications                                                          *)
(***************************************************************************)
HInit == HVarsInit /\ crc = FALSE /\ crc_disabled = FALSE /\ BVarsIdle /\ overflow_panics = FALSE /\ FVarsIdle

SpecHeader == HInit /\ [][HNext]_vars

Init == HVarsInit /\ BInit /\ overflow_panics = FALSE /\ FVarsIdle

Next == BNext

Spec == Init /\ [][Next]_vars

\* the block transfers of the bus
SpecData == Init /\ [][InitCs \/ CrcDisabled \/ ReadData \/ WriteData \/ TakeResult]_vars

\* the host interface over a bus with CRC off, as after initialize
FullInit ==
    /\ HVarsInit
    /\ crc = FALSE /\ crc_disabled = TRUE /\ BVarsIdle
    /\ overflow_panics \in BOOLEAN
    /\ FVarsIdle

SpecSend == FullInit /\ [][Send \/ FTakeResult]_vars

SpecIsr == FullInit /\ [][Isr \/ FTakeResult]_vars

\* the host interface with its callbacks and receive called directly
SpecHif ==
    FullInit /\ [][Isr \/ Receive \/ WifiCallback \/ SetMode \/ FTakeResult]_vars

\* the driver from Atwinc1500::new on, initialized any number of times
SpecInit == Init /\ [][Initialize \/ FTakeResult]_vars

\* every operation of the host interface that is given the driver's state
SpecStatus == FullInit /\ [][Isr \/ Receive \/ WifiCallback \/ Send \/ FTakeResult]_vars

\* scans requested, and the packets the chip sends back
SpecScan == FullInit /\ [][RequestNetworkScan \/ Isr \/ FTakeResult]_vars

\* connections built and converted to the old format
SpecConnection == FullInit /\ [][IntoOldConnection \/ FTakeResult]_vars

\* _chip_sleep, its loop running as long as the processor does
SpecSleep ==
    FullInit /\ [][ChipSleep \/ FTakeResult]_vars /\ WF_vars(ChipSleep)

(***************************************************************************)
(* Properties of the header codec (checked under SpecHeader)               *)
(***************************************************************************)

\* C1: a header built by HifHeader::new(g, o, n), serialised to its wire
\* bytes and parsed back with HifHeader::from, has length n + 8, gid g and
\* op o.
C1_HeaderRoundTrip ==
    h_parsed.tag = "hdr" =>
        /\ h_parsed.length = h_args.length + HIF_HEADER_SIZE
        /\ h_parsed.gid = h_args.gid
        /\ h_parsed.op = h_args.op

\* C2: HifHeader::new(g, o, n) stores length = n + 8 for every u16 n, and
\* stores gid and op unchanged.
C2_NewAddsHeaderSize ==
    h_hdr # NoHeader =>
        h_hdr = Header(h_args.gid, h_args.op, h_args.length + 8)

\* C3: for every header the 8-byte buffer is [gid, op, length_low,
\* length_high, 0, 0, 0, 0] and the packed register value is
\* (length_high << 24) | (length_low << 16) | (op << 8) | gid.
C3_WireRepresentationsAgree ==
    h_reg # <<>> =>
        LET lo == h_hdr.length % 256
            hi == h_hdr.length \div 256
        IN  /\ h_bytes = << h_hdr.gid, h_hdr.op, lo, hi, 0, 0, 0, 0 >>
            /\ h_reg = << hi, lo, h_hdr.op, h_hdr.gid >>

C3_Witness ==
    /\ h_reg # <<>>
    /\ h_hdr = Header(1, 44, 4668)

(***************************************************************************)
(* Properties of the register access (checked under Spec)                  *)
(***************************************************************************)
\* the buffer the last operation put on the bus, and what came back
SentBuffer == b_wire[1].tx

ReceivedBuffer == b_wire[1].rx

IsCall(op) == b_call.op = op /\ b_wire # <<>>

\* the call's transfer went through, so the operation saw the chip's answer
Answered(op) == IsCall(op) /\ b_wire[1].res = "Ok"

IsByteAddress(a) == a[1] = 0 /\ a[2] = 0 /\ a[3] = 0

\* C4: read_register(address) issues CMD_INTERNAL_READ (0xC4) with the high
\* bit of the first address byte set when address <= 0xFF, and
\* CMD_SINGLE_READ (0xCA) with the plain 3-byte address (no bit added) for
\* every larger address.
C4_ReadRegisterCommand ==
    IsCall("read_register") =>
        LET a == b_call.address
        IN  IF IsByteAddress(a)
            THEN /\ At(SentBuffer, 0) = 196
                 /\ At(SentBuffer, 1) >= 128
                 /\ At(SentBuffer, 2) = a[4]
            ELSE /\ At(SentBuffer, 0) = 202
                 /\ At(SentBuffer, 1) = a[2]
                 /\ At(SentBuffer, 2) = a[3]
                 /\ At(SentBuffer, 3) = a[4]

C4_Witness ==
    /\ IsCall("read_register")
    /\ b_call.address = W32(255)
    /\ At(SentBuffer, 0) = 196
    /\ At(SentBuffer, 1) = 128

\* C5 as stated: read_register(0x30) selects CMD_INTERNAL_READ and
\* read_register(0x31) selects CMD_SINGLE_READ.
C5_ThresholdAt0x30 ==
    IsCall("read_register") =>
        /\ b_call.address = W32(48) => At(SentBuffer, 0) = 196
        /\ b_call.address = W32(49) => At(SentBuffer, 0) = 202

\* C5 amended: the boundary for reads is 0xFF: read_register(0x30),
\* read_register(0x31) and read_register(0xFF) select CMD_INTERNAL_READ and
\* read_register(0x100) selects CMD_SINGLE_READ.
C5_ThresholdAt0xFF ==
    IsCall("read_register") =>
        /\ b_call.address \in {W32(48), W32(49), W32(255)} => At(SentBuffer, 0) = 196
        /\ b_call.address = W32(256) => At(SentBuffer, 0) = 202

C5_Witness ==
    /\ IsCall("read_register")
    /\ b_call.address = W32(49)
    /\ At(SentBuffer, 0) = 196

\* C6: write_register(address, data) issues CMD_INTERNAL_WRITE (0xC3) with
\* the clockless bit set when address <= 0x30, and CMD_SINGLE_WRITE (0xC9)
\* with a 3-byte address and the 4 data bytes most significant first for
\* every larger address.
C6_WriteRegisterCommand ==
    IsCall("write_register") =>
        LET a == b_call.address
            d == b_call.data
        IN  IF IsByteAddress(a) /\ a[4] <= 48
            THEN /\ At(SentBuffer, 0) = 195
                 /\ At(SentBuffer, 1) >= 128
            ELSE /\ At(SentBuffer, 0) = 201
                 /\ Slice(SentBuffer, 1, 4) = << a[2], a[3], a[4] >>
                 /\ Slice(SentBuffer, 4, 8) = d

C6_Witness ==
    /\ IsCall("write_register")
    /\ b_call.address = W32(48)
    /\ At(SentBuffer, 0) = 195
    /\ At(SentBuffer, 1) = 128

\* where write_register and read_register look for the chip's response
WriteResponseOffset == IF crc_disabled THEN 8 ELSE 9

ReadResponseOffset == IF crc_disabled THEN 4 ELSE 5

\* C7 as stated: write_register returns Ok only when the byte at the
\* response offset echoes the opcode sent and the status byte that follows
\* is zero.
C7_OkOnlyOnZeroStatusByte ==
    (Answered("write_register") /\ b_ret.tag = "Ok") =>
        /\ At(ReceivedBuffer, WriteResponseOffset) = At(SentBuffer, 0)
        /\ At(ReceivedBuffer, WriteResponseOffset + 1) = 0

\* C7 amended: write_register returns Ok only when the byte at the response
\* offset echoes the opcode sent and the low nibble of the status byte that
\* follows is zero; every other response yields WriteRegisterError carrying
\* the opcode and the device error decoded from that nibble, after exactly
\* one bus transfer.
C7_OkOnlyOnZeroStatusNibble ==
    Answered("write_register") =>
        LET echo == At(ReceivedBuffer, WriteResponseOffset)
            nibble == At(ReceivedBuffer, WriteResponseOffset + 1) % 16
            opcode == At(SentBuffer, 0)
        IN  /\ Len(b_wire) = 1
            /\ IF echo = opcode /\ nibble = 0
               THEN b_ret.tag = "Ok"
               ELSE b_ret = Err(<< "WriteRegisterError", opcode,
                                   SpiCommandError_from(nibble) >>)

C7_Witness ==
    /\ Answered("write_register")
    /\ b_ret.tag = "Ok"
    /\ At(ReceivedBuffer, WriteResponseOffset + 1) = 16

\* C8: read_register returns ReadRegisterError, never a value, whenever the
\* echo byte differs from the opcode sent, or the status nibble is not
\* NoError, or the high nibble of the byte at response_start + 2 is not 0xF;
\* the error carries the opcode, the decoded status and the raw marker byte,
\* and comes after exactly one bus transfer.
C8_ReadRegisterError ==
    Answered("read_register") =>
        LET rs == ReadResponseOffset
            echo == At(ReceivedBuffer, rs)
            nibble == At(ReceivedBuffer, rs + 1) % 16
            marker == At(ReceivedBuffer, rs + 2)
            opcode == At(SentBuffer, 0)
        IN  /\ Len(b_wire) = 1
            /\ (echo # opcode \/ nibble # 0 \/ marker \div 16 # 15) =>
                  b_ret = Err(<< "ReadRegisterError", opcode,
                                 SpiCommandError_from(nibble), marker >>)

C8_Witness ==
    /\ Answered("read_register")
    /\ At(ReceivedBuffer, ReadResponseOffset) = At(SentBuffer, 0)
    /\ At(ReceivedBuffer, ReadResponseOffset + 1) = 0
    /\ At(ReceivedBuffer, ReadResponseOffset + 2) = 238
    /\ b_ret = Err(<< "ReadRegisterError", 202, "NoError", 238 >>)

\* C9: on a valid response read_register returns the little-endian u32 of
\* the four bytes that follow the marker byte: bytes 7..11 in the layout
\* without CRC, 8..12 in the layout with CRC.
C9_ReadRegisterValue ==
    (Answered("read_register") /\ b_ret.tag = "Ok") =>
        LET first == IF crc_disabled THEN 7 ELSE 8
            rx == ReceivedBuffer
        IN  /\ first = ReadResponseOffset + 3
            /\ b_ret.val = << At(rx, first + 3), At(rx, first + 2),
                              At(rx, first + 1), At(rx, first) >>

C9_Witness ==
    /\ Answered("read_register")
    /\ b_ret = Ok(<< 16, 173, 208, 158 >>)
    /\ Slice(ReceivedBuffer, ReadResponseOffset + 3, ReadResponseOffset + 7)
          = << 158, 208, 173, 16 >>

\* C10: whenever CRC is enabled (crc is set, or crc_disabled() has not been
\* called) command() places crc7(0x7f, buffer[0..L]) << 1 at index L, where
\* L is the opcode's payload-shape length, for every opcode; when CRC is not
\* enabled no CRC byte is written.
C10_CrcAtShapeLength ==
    IsCall("command") =>
        LET L == ShapeLen(b_call.cmd)
            plain == command_fields(Zeros(Len(SentBuffer)), b_call.cmd, b_call.address,
                                    b_call.data, b_call.size, b_call.clockless)
        IN  IF crc \/ ~crc_disabled
            THEN /\ At(SentBuffer, L) = (crc7(127, Slice(SentBuffer, 0, L)) * 2) % 256
                 /\ Slice(SentBuffer, 0, L) = Slice(plain, 0, L)
            ELSE SentBuffer = plain

(***************************************************************************)
(* Properties of transfer (checked under Spec)                             *)
(***************************************************************************)
\* the last call of transfer the operation made
LastExchange == b_wire[Len(b_wire)]

\* C11: every byte exchange is bracketed by chip-select: after any transfer
\* returns, with Ok or with an error, CS is high (deasserted).  Stated for
\* the transfers whose chip-select pin obeyed (the result is Ok or the error
\* of the exchange itself), so that a pin that cannot be driven is not what
\* the property rests on.
C11_CsHighAfterTransfer ==
    (b_wire # <<>> /\ LastExchange.res \in {"Ok", "TransferError"}) => cs = "high"

(***************************************************************************)
(* Properties of the block transfers (checked under SpecData)              *)
(***************************************************************************)
\* the calls of transfer, after the command, that the operation made on `buf`
Exchanges(buf) == { i \in 2..Len(b_wire) : b_wire[i].buf = buf }

\* C12: read_data sends CMD_DMA_EXT_READ (0xC8), then polls the 3-byte
\* response at most 10 times, and makes the bulk data transfer only after a
\* poll whose first byte equals 0xC8; a first byte that is neither 0 nor
\* 0xC8 ends the polling with ReadDataError and no bulk transfer.
C12_ReadDataOrder ==
    IsCall("read_data") =>
        /\ At(SentBuffer, 0) = 200
        /\ Cardinality(Exchanges("response")) <= 10
        /\ \A i \in Exchanges("response") :
              /\ Len(b_wire[i].tx) = 3
              /\ (b_wire[i].res = "Ok" /\ At(b_wire[i].rx, 0) \notin {0, 200}) =>
                    /\ i = Len(b_wire)
                    /\ b_ret.tag = "Err"
                    /\ b_ret.err[1] = "ReadDataError"
        /\ \A i \in Exchanges("data") :
              /\ i = Len(b_wire)
              /\ i > 2
              /\ b_wire[i - 1].buf = "response"
              /\ b_wire[i - 1].res = "Ok"
              /\ At(b_wire[i - 1].rx, 0) = 200

\* the completion polls of write_data: the one-byte exchanges after the payload
CompletionPolls == { i \in Exchanges("response") : Len(b_wire[i].tx) = 1 }

\* the data mark and the payload went out and ten completion polls came
\* back, none of them with 0xC3
WriteRetriesExhausted ==
    /\ \E i \in Exchanges("data_mark") : b_wire[i].res = "Ok"
    /\ \E i \in Exchanges("data") : b_wire[i].res = "Ok"
    /\ Cardinality(CompletionPolls) = 10
    /\ \A i \in CompletionPolls : b_wire[i].res = "Ok" /\ At(b_wire[i].rx, 0) # 195

\* C13: when write_data has sent the data mark and the payload and none of
\* its 10 completion polls returns 0xC3, the exhaustion is not reported: the
\* loop ends and write_data returns Ok.
C13_WriteExhaustionReturnsOk ==
    (IsCall("write_data") /\ WriteRetriesExhausted) => b_ret = Ok(<<>>)

C13_Witness ==
    /\ IsCall("write_data")
    /\ WriteRetriesExhausted
    /\ Len(b_wire) = 14
    /\ b_ret.tag = "Ok"

\* all ten response polls of read_data came back with a zero first byte
ReadRetriesExhausted ==
    /\ Cardinality(Exchanges("response")) = 10
    /\ \A i \in Exchanges("response") : b_wire[i].res = "Ok" /\ At(b_wire[i].rx, 0) = 0

\* C14 as stated: when all 10 response polls of read_data return a zero
\* first byte, the exhaustion is not surfaced as an error: read_data falls
\* through and returns Ok.
C14_ReadExhaustionReturnsOk ==
    (IsCall("read_data") /\ ReadRetriesExhausted) => b_ret.tag = "Ok"

\* C14 amended: when all 10 response polls of read_data return a zero first
\* byte, read_data makes no bulk transfer and returns ReadDataError with the
\* opcode 0xC8 and the error decoded from the second byte of the last
\* response.
C14_ReadExhaustionReturnsError ==
    (IsCall("read_data") /\ ReadRetriesExhausted) =>
        /\ Exchanges("data") = {}
        /\ Len(b_wire) = 11
        /\ b_ret = Err(<< "ReadDataError", 200,
                          SpiCommandError_from(At(LastExchange.rx, 1)) >>)

C14_Witness ==
    /\ IsCall("read_data")
    /\ ReadRetriesExhausted
    /\ b_ret = Err(<< "ReadDataError", 200, "Crc7Error" >>)

(***************************************************************************)
(* Properties of HostInterface::send (checked under SpecSend)              *)
(***************************************************************************)
IsSend == f_call.op = "send"

\* the bus operations of one kind on one register or address
BusOps(op, address) ==
    { i \in 1..Len(f_bus) : f_bus[i].op = op /\ f_bus[i].address = address }

\* the status reads of send
StatusReads == BusOps("read_register", W32(WIFI_HOST_RCV_CTRL_2))

\* the writes of send that carry the packet: header, data and control bytes
PacketWrites == { i \in 1..Len(f_bus) : f_bus[i].op = "write_data" }

\* what a send of header h, data d and control bytes c does after its status
\* reads, with the address A the chip allocated (u32 arithmetic)
SendTail(h, d, c, A) ==
    << BusOp("read_register", W32(WIFI_HOST_RCV_CTRL_4), A, TRUE),
       BusOp("write_data", A, HifHeader_into_bytes(h), TRUE) >>
    \o (IF d # <<>>
        THEN << BusOp("write_data", Add32(A, W32(8)).val, d, TRUE) >>
        ELSE <<>>)
    \o (IF c # <<>>
        THEN << BusOp("write_data", Add32(Add32(A, W32(8)).val, W32(Len(d))).val, c, TRUE) >>
        ELSE <<>>)
    \o << BusOp("write_register", W32(WIFI_HOST_RCV_CTRL_3), Shl2Or2(A), TRUE) >>

\* C15: the bus operations of a send that returned Ok are, in this order:
\* the packed header written to NMI_STATE_REG, 2 written to
\* WIFI_HOST_RCV_CTRL_2, one or more reads of WIFI_HOST_RCV_CTRL_2, the read
\* of the address A from WIFI_HOST_RCV_CTRL_4, the 8 header bytes written at
\* A, the data (if any) at A+8, the control bytes (if any) at A+8+len(data),
\* and last (A << 2) | 2 written to WIFI_HOST_RCV_CTRL_3.
C15_SendOrder ==
    (IsSend /\ f_ret.tag = "Ok") =>
        \E k \in 1..(Len(f_bus) - 4) :
            /\ f_bus[1] = BusOp("write_register", W32(NMI_STATE_REG),
                                HifHeader_into_u32(f_call.header), TRUE)
            /\ f_bus[2] = BusOp("write_register", W32(WIFI_HOST_RCV_CTRL_2), W32(2), TRUE)
            /\ StatusReads = 3..(2 + k)
            /\ \A i \in StatusReads : f_bus[i].ok
            /\ SubSeq(f_bus, 3 + k, Len(f_bus)) =
                   SendTail(f_call.header, f_call.data_buffer, f_call.ctrl_buffer,
                            f_bus[3 + k].data)

C15_Witness ==
    /\ IsSend
    /\ f_ret = Ok(<<>>)
    /\ f_call.data_buffer # <<>>
    /\ f_call.ctrl_buffer # <<>>
    /\ Cardinality(StatusReads) = 2
    /\ Len(f_bus) = 9

\* C16: a bus operation of send that fails is its last one, and send returns
\* the error; a send that returns Ok had no failed operation, and no write to
\* WIFI_HOST_RCV_CTRL_3 follows a failed operation.
C16_SendStopsAtFailure ==
    IsSend =>
        /\ \A i \in 1..Len(f_bus) :
              ~f_bus[i].ok => (i = Len(f_bus) /\ f_ret = Err(<< "SpiError" >>))
        /\ f_ret.tag = "Err" => (f_bus # <<>> /\ ~f_bus[Len(f_bus)].ok)

C16_Witness ==
    /\ IsSend
    /\ f_call.data_buffer # <<>>
    /\ Len(f_bus) = 5
    /\ f_bus[5].op = "write_data"
    /\ ~f_bus[5].ok
    /\ f_ret = Err(<< "SpiError" >>)
    /\ BusOps("write_register", W32(WIFI_HOST_RCV_CTRL_3)) = {}

\* C17: whenever send has read WIFI_HOST_RCV_CTRL_4 or written packet bytes,
\* its last read of WIFI_HOST_RCV_CTRL_2 before that showed bit 1 clear.
C17_SendOnlyWhenNotBusy ==
    IsSend =>
        \A i \in BusOps("read_register", W32(WIFI_HOST_RCV_CTRL_4)) \cup PacketWrites :
            \E j \in StatusReads :
                /\ j < i
                /\ \A l \in StatusReads : l <= j
                /\ f_bus[j].ok
                /\ Bit1(f_bus[j].data) = 0

(***************************************************************************)
(* Properties of HostInterface::isr (checked under SpecIsr)                *)
(***************************************************************************)
IsIsr == f_call.op = "isr"

\* isr has read the receive-control register: the word it got
ControlRead == f_bus # <<>> /\ f_bus[1].ok

ControlWord == f_bus[1].data

\* isr has read the 4 header bytes of a packet: its fourth bus operation
HeaderRead == Len(f_bus) >= 4 /\ f_bus[4].op = "read_data" /\ f_bus[4].ok

HeaderGid == At(f_bus[4].data, 0)

HeaderOp == At(f_bus[4].data, 1)

NoBusFailure == \A i \in 1..Len(f_bus) : f_bus[i].ok

\* the acknowledgements of finish_reception: WIFI_HOST_RCV_CTRL_0 written
\* with bit 1 set, after the write that cleared the new-data bit
FinishWrites ==
    { i \in 3..Len(f_bus) : /\ f_bus[i].op = "write_register"
                            /\ f_bus[i].address = W32(WIFI_HOST_RCV_CTRL_0)
                            /\ Bit1(f_bus[i].data) = 1
                            /\ f_bus[i].ok }

\* C18: when isr has read the receive-control register and bit 0 of the
\* word is clear, that read is its only bus operation, no callback runs, the
\* read context and the driver state are as before the call, and it returns
\* Ok(None).
C18_IsrNoNewData ==
    (IsIsr /\ ControlRead /\ Bit0(ControlWord) = 0) =>
        /\ Len(f_bus) = 1
        /\ f_callbacks = <<>>
        /\ ctx = f_call.ctx
        /\ state = f_call.state
        /\ f_ret = Ok(None)

C18_Witness ==
    /\ IsIsr
    /\ ControlRead
    /\ ControlWord = W32(48)
    /\ f_call.ctx.read_size # W32(0)
    /\ f_call.state.status = "Connected"
    /\ f_ret = Ok(None)

\* isr made exactly the callback `fn` with the opcode decoded, and if it
\* returned Ok it returned that command
Routed(fn, kind, opcode) ==
    /\ Len(f_callbacks) = 1
    /\ f_callbacks[1].fn = fn
    /\ f_callbacks[1].opcode = opcode
    /\ f_ret.tag = "Ok" => f_ret.val = Some(<< kind, opcode >>)

\* C19: once isr has read a header, group id 1 makes exactly one call of
\* wifi_callback and group id 2 exactly one call of ip_callback, with the
\* opcode decoded from the header, and an Ok result carries that command; any
\* other group id makes no callback, leaves the driver state as it was,
\* returns no command and, when no bus operation fails, acknowledges the
\* packet and returns Ok(None).
C19_IsrRouting ==
    (IsIsr /\ HeaderRead) =>
        CASE HeaderGid = WIFI ->
                Routed("wifi_callback", "WifiCommand", WifiCommand_from(HeaderOp))
          [] HeaderGid = IP ->
                Routed("ip_callback", "SocketCommand", SocketCommand_from(HeaderOp))
          [] OTHER ->
                /\ f_callbacks = <<>>
                /\ state = f_call.state
                /\ f_ret.tag = "Ok" => f_ret = Ok(None)
                /\ NoBusFailure => (f_ret = Ok(None) /\ Cardinality(FinishWrites) = 1)

\* C20: when isr has accepted a packet (bit 0 of the control word set), no
\* bus operation failed and nothing panicked, exactly one acknowledgement
\* was written.
C20_FinishExactlyOnce ==
    (IsIsr /\ ControlRead /\ Bit0(ControlWord) = 1 /\ NoBusFailure /\ f_ret # Panic) =>
        Cardinality(FinishWrites) = 1

\* the packet is between its header and its end: isr has parsed the header
\* and no acknowledgement has been written
PacketOpen == HeaderRead /\ FinishWrites = {}

\* C21: after an isr call that started with read_done true and did not
\* panic, read_done is false exactly when the header of a packet has been
\* parsed and the packet has not been acknowledged.
C21_ReadDoneInterval ==
    (IsIsr /\ f_call.ctx.read_done /\ f_ret # Panic) => (ctx.read_done <=> ~PacketOpen)

(***************************************************************************)
(* Properties of receive and wifi_callback (checked under SpecHif)         *)
(***************************************************************************)
IsReceive == f_call.op = "receive"

IsWifiCallback == f_call.op = "wifi_callback"

\* a u32 as a number
U32Value(w) == Hi16(w) * 65536 + Lo16(w)

C23_ReceiveInsidePacket ==
    IsReceive =>
        /\ f_ret # Panic
        /\ \A i \in 1..Len(f_bus) :
              f_bus[i].op = "read_data" =>
                  /\ U32Value(f_bus[i].address) >= U32Value(f_call.ctx.read_addr)
                  /\ U32Value(f_bus[i].address) + Len(f_bus[i].data)
                        <= U32Value(f_call.ctx.read_addr) + U32Value(f_call.ctx.read_size)

\* the first byte of the block wifi_callback received
ReceivedByte == At(f_bus[1].data, 0)

\* C24: when wifi_callback has handled RespConStateChanged, the status is
\* Connected for byte 0 in station mode, ApConnected for byte 0 in AP mode,
\* Disconnected for byte 1 in station mode, ApListening for byte 1 in AP
\* mode, and unchanged for any other byte or mode; nothing else of the
\* driver state changes.
C24_StatusTable ==
    (IsWifiCallback /\ f_call.byte = 44 /\ f_ret.tag = "Ok") =>
        state = [f_call.state EXCEPT !.status =
                    CASE ReceivedByte = 0 /\ f_call.state.mode = "Station" -> "Connected"
                      [] ReceivedByte = 0 /\ f_call.state.mode = "Ap" -> "ApConnected"
                      [] ReceivedByte = 1 /\ f_call.state.mode = "Station" -> "Disconnected"
                      [] ReceivedByte = 1 /\ f_call.state.mode = "Ap" -> "ApListening"
                      [] OTHER -> @]

C24_Witness ==
    /\ IsWifiCallback
    /\ f_call.byte = 44
    /\ f_ret.tag = "Ok"
    /\ ReceivedByte = 1
    /\ f_call.state.mode = "Ap"
    /\ f_call.state.status = "ApConnected"
    /\ state.status = "ApListening"

\* C25: wifi_callback gets WifiCommand::Invalid for a byte that is no
\* WifiCommand and the variant of that number for a byte that is one; for
\* every opcode other than the five it handles it makes no bus operation,
\* leaves the driver state and the read context as they were, and returns Ok.
C25_UnhandledOpcodes ==
    IsWifiCallback =>
        /\ Len(f_callbacks) = 1
        /\ f_callbacks[1].opcode =
              IF f_call.byte \in WifiCommands THEN f_call.byte ELSE WifiCommand_Invalid
        /\ f_call.byte \notin {6, 17, 19, 27, 44} =>
              /\ f_bus = <<>>
              /\ state = f_call.state
              /\ ctx = f_call.ctx
              /\ f_ret = Ok(<<>>)

C25_Witness ==
    /\ IsWifiCallback
    /\ f_call.byte = 14
    /\ f_callbacks[1].opcode = WifiCommand_Invalid
    /\ f_call.ctx.read_size = W32(12)
    /\ f_ret = Ok(<<>>)

(***************************************************************************)
(* Termination of the polling loops (checked under SpecSleep)              *)
(***************************************************************************)
\* C26: a call of _chip_sleep returns: its loop does not poll forever,
\* whatever the chip answers.
C26_ChipSleepReturns == (f_call.op = "chip_sleep") ~> (f_ret # NoRet)

(***************************************************************************)
(* Properties of initialize (checked under SpecInit)                       *)
(***************************************************************************)
IsInitialize == f_call.op = "initialize"

\* the reads of BOOTROM_REG an initialization made
BootromReads == BusOps("read_register", W32(BOOTROM_REG))

\* the read of M2M_WAIT_FOR_HOST_REG succeeded and bit 0 of its value is b
WaitBit(b) ==
    \E w \in BusOps("read_register", W32(M2M_WAIT_FOR_HOST_REG)) :
        f_bus[w].ok /\ Bit0(f_bus[w].data) = b

\* read number k of BOOTROM_REG succeeded and returned FINISH_BOOT_VAL
BootromReady(k) ==
    \E i \in BootromReads :
        /\ Cardinality({ j \in BootromReads : j <= i }) = k
        /\ f_bus[i].ok
        /\ f_bus[i].data = W32(FINISH_BOOT_VAL)

\* the driver-version write follows the last read of BOOTROM_REG
DriverVersionWriteNext ==
    \E i \in BootromReads :
        /\ \A j \in BootromReads : j <= i
        /\ i < Len(f_bus)
        /\ f_bus[i + 1].op = "write_register"
        /\ f_bus[i + 1].address = W32(NMI_STATE_REG)
        /\ f_bus[i + 1].data = W32(DRIVER_VER_INFO)

\* C27: in initialize, with bit 0 of M2M_WAIT_FOR_HOST_REG clear,
\* BOOTROM_REG is read at most 3 times and no read follows one that returned
\* 0x10add09e; if the 2nd read returned it, there are exactly 2 reads and the
\* driver-version write comes next.  With bit 0 set BOOTROM_REG is not read.
C27_BootromPolling ==
    IsInitialize =>
        /\ WaitBit(1) => BootromReads = {}
        /\ WaitBit(0) =>
              /\ Cardinality(BootromReads) <= 3
              /\ \A k \in 1..3 : BootromReady(k) => Cardinality(BootromReads) = k
              /\ BootromReady(2) => DriverVersionWriteNext

C27_Witness ==
    /\ IsInitialize
    /\ WaitBit(0)
    /\ Cardinality(BootromReads) = 2
    /\ BootromReady(2)
    /\ DriverVersionWriteNext
    /\ f_ret = Ok(<<>>)

(***************************************************************************)
(* The bytes of a command (checked under Spec)                             *)
(***************************************************************************)
IsCommand == b_call.op = "command"

\* the first n bytes command() put on the bus
CommandBytes(n) == Slice(b_wire[1].tx, 0, n)

\* what follows the opcode of each TYPE_A command
TypeAFields ==
    CASE b_call.cmd = CmdInternalRead ->
            << IF b_call.clockless THEN BitOr(ByteOf(b_call.address, 1), 128)
               ELSE ByteOf(b_call.address, 1),
               ByteOf(b_call.address, 0), 0 >>
      [] b_call.cmd = CmdSingleRead ->
            << ByteOf(b_call.address, 2), ByteOf(b_call.address, 1),
               ByteOf(b_call.address, 0) >>
      [] b_call.cmd = CmdReset -> << 255, 255, 255 >>
      [] OTHER -> << 0, 0, 0 >>

SingleWriteBytes ==
    << CmdSingleWrite,
       ByteOf(b_call.address, 2), ByteOf(b_call.address, 1), ByteOf(b_call.address, 0),
       ByteOf(b_call.data, 3), ByteOf(b_call.data, 2), ByteOf(b_call.data, 1),
       ByteOf(b_call.data, 0) >>

\* C28 as stated: command() encodes every TYPE_A opcode (internal read,
\* single read, terminate, repeat, reset) as [opcode, addr_hi, addr_lo, 0]
\* and single write as [opcode, addr2, addr1, addr0, data3, data2, data1,
\* data0].
C28_TypeAAddress16 ==
    IsCommand =>
        /\ b_call.cmd \in {CmdInternalRead, CmdSingleRead, CmdTerminate, CmdRepeat, CmdReset}
              => CommandBytes(TYPE_A) = << b_call.cmd, ByteOf(b_call.address, 1),
                                           ByteOf(b_call.address, 0), 0 >>
        /\ b_call.cmd = CmdSingleWrite => CommandBytes(TYPE_D) = SingleWriteBytes

\* C28, amended: command() encodes internal read as [opcode, addr_hi (bit 7
\* set when clockless), addr_lo, 0], single read as [opcode, addr2, addr1,
\* addr0], terminate and repeat as [opcode, 0, 0, 0], reset as [opcode, 0xff,
\* 0xff, 0xff], and single write as [opcode, addr2, addr1, addr0, data3,
\* data2, data1, data0].
C28_CommandEncoding ==
    IsCommand =>
        /\ b_call.cmd \in {CmdInternalRead, CmdSingleRead, CmdTerminate, CmdRepeat, CmdReset}
              => CommandBytes(TYPE_A) = << b_call.cmd >> \o TypeAFields
        /\ b_call.cmd = CmdSingleWrite => CommandBytes(TYPE_D) = SingleWriteBytes

C28_Witness ==
    /\ IsCommand
    /\ b_call.cmd = CmdSingleRead
    /\ b_call.address = << 128, 129, 18, 52 >>
    /\ CommandBytes(TYPE_A) = << CmdSingleRead, 129, 18, 52 >>

(***************************************************************************)
(* The old connection format (checked under SpecConnection)                *)
(***************************************************************************)
IsOldConnection == f_call.op = "old_connection"

\* C29: for every SSID of at most 33 bytes the 108-byte old connection format
\* has the security type at byte 65 (1 open, 2 WPA-PSK, 4 WPA enterprise), the
\* channel at byte 68, the SSID followed by zeros in the 33 bytes 70..103
\* (byte 103 excluded) and save_creds at byte 103.
C29_OldConnectionLayout ==
    (IsOldConnection /\ Len(f_call.ssid) <= 33) =>
        /\ f_ret.tag = "Ok"
        /\ Len(f_ret.val) = 108
        /\ At(f_ret.val, 65) = f_call.sec_type
        /\ At(f_ret.val, 68) = f_call.channel
        /\ \A i \in 0..32 :
              At(f_ret.val, 70 + i) =
                  IF i < Len(f_call.ssid) THEN f_call.ssid[i + 1] ELSE 0
        /\ At(f_ret.val, 103) = f_call.save_creds

C29_Witness ==
    /\ IsOldConnection
    /\ f_call.sec_type = 4
    /\ Len(f_call.ssid) = 33
    /\ f_call.save_creds = 1
    /\ f_call.channel = 6
    /\ f_ret.tag = "Ok"
    /\ At(f_ret.val, 65) = 4
    /\ At(f_ret.val, 102) = f_call.ssid[33]
    /\ At(f_ret.val, 103) = 1

(***************************************************************************)
(* The order of the exchanges of write_data (checked under SpecData)       *)
(***************************************************************************)
\* the exchange after the command: the read of the 2-byte response
WriteResponse == b_wire[2]

\* the chip acknowledged the command: the response begins with 0xC7
WriteAcknowledged ==
    Len(b_wire) >= 2 /\ WriteResponse.res = "Ok" /\ At(WriteResponse.rx, 0) = 199

\* after the command: the response, the data mark, the payload and the
\* completion polls, in this order and as far as the call got
WriteExchangesInOrder ==
    /\ Len(b_wire) <= 14
    /\ \A i \in 2..Len(b_wire) :
          /\ b_wire[i - 1].res = "Ok"
          /\ CASE i = 2 -> b_wire[i].buf = "response" /\ Len(b_wire[i].tx) = 2
               [] i = 3 -> /\ WriteAcknowledged
                           /\ b_wire[i].buf = "data_mark"
                           /\ b_wire[i].tx = << 243 >>
               [] i = 4 -> b_wire[i].buf = "data" /\ b_wire[i].tx = Block(b_call.count)
               [] OTHER -> /\ b_wire[i].buf = "response"
                           /\ Len(b_wire[i].tx) = 1
                           /\ i > 5 => At(b_wire[i - 1].rx, 0) # 195

\* a response that does not begin with 0xC7 ends the call with WriteDataError
WriteRefused ==
    (Len(b_wire) >= 2 /\ WriteResponse.res = "Ok" /\ At(WriteResponse.rx, 0) # 199) =>
        /\ Len(b_wire) = 2
        /\ b_ret.tag = "Err"
        /\ b_ret.err[1] = "WriteDataError"

\* C30: write_data makes its exchanges in this order: the CMD_DMA_EXT_WRITE
\* (0xC7) command, one 2-byte response read, the data mark 0xF3, the payload,
\* then at most 10 one-byte polls that stop at the first 0xC3; a response
\* whose first byte is not 0xC7 gives WriteDataError, with neither the data
\* mark nor the payload sent.
C30_WriteDataOrder ==
    IsCall("write_data") =>
        /\ At(SentBuffer, 0) = 199
        /\ WriteExchangesInOrder
        /\ WriteRefused

(***************************************************************************)
(* The declared size of a packet in isr (checked under SpecIsr)            *)
(***************************************************************************)
\* bits 2 to 13 of the receive-control word isr read
DeclaredSize == ((ControlWord[3] * 256 + ControlWord[4]) \div 4) % 4096

\* isr saw new data in the receive-control word
NewData == IsIsr /\ ControlRead /\ Bit0(ControlWord) = 1

\* C31: isr takes the packet size from bits 2-13 of the receive-control
\* word.  With size 0 it reads no address and no header, dispatches nothing,
\* leaves read_addr and read_size as they were, returns no command and (the
\* bus working) calls finish_reception once.  With size > 0, once it has read
\* the address it stores address and size in the context and reads exactly 4
\* header bytes at that address.
C31_IsrDeclaredSize ==
    NewData =>
        /\ DeclaredSize = 0 =>
              /\ BusOps("read_register", W32(WIFI_HOST_RCV_CTRL_1)) = {}
              /\ \A i \in 1..Len(f_bus) : f_bus[i].op # "read_data"
              /\ f_callbacks = <<>>
              /\ ctx.read_addr = f_call.ctx.read_addr
              /\ ctx.read_size = f_call.ctx.read_size
              /\ f_ret.tag = "Ok" => f_ret = Ok(None)
              /\ NoBusFailure => (f_ret = Ok(None) /\ Cardinality(FinishWrites) = 1)
        /\ (DeclaredSize > 0 /\ Len(f_bus) >= 3 /\ f_bus[3].ok) =>
              /\ f_bus[3].op = "read_register"
              /\ f_bus[3].address = W32(WIFI_HOST_RCV_CTRL_1)
              /\ ctx.read_addr = f_bus[3].data
              /\ ctx.read_size = << 0, 0, DeclaredSize \div 256, DeclaredSize % 256 >>
              /\ Len(f_bus) >= 4
              /\ f_bus[4].op = "read_data"
              /\ f_bus[4].address = f_bus[3].data
              /\ Len(f_bus[4].data) = 4

C31_Witness ==
    /\ NewData
    /\ ControlWord = W32(9)
    /\ f_call.ctx.read_size = W32(12)
    /\ ctx.read_size = W32(2)
    /\ ctx.read_addr = W32(86016)
    /\ HeaderRead

(***************************************************************************)
(* The end of a packet in receive (checked under SpecHif)                  *)
(***************************************************************************)
\* receive made its block read and the read succeeded
BlockRead == IsReceive /\ f_bus # <<>> /\ f_bus[1].op = "read_data" /\ f_bus[1].ok

\* where the block read ends and where the packet ends
ReadEnd == U32Value(f_call.address) + f_call.len

PacketEnd == U32Value(f_call.ctx.read_addr) + U32Value(f_call.ctx.read_size)

\* C32: after a successful block read, receive calls finish_reception (which
\* sets read_done and starts with a read of WIFI_HOST_RCV_CTRL_0) if and only
\* if address + buffer length equals read_addr + read_size; a read that ends
\* before the packet end leaves read_done as it was and makes no further bus
\* operation, so no acknowledgement.
C32_ReceiveFinishesAtPacketEnd ==
    BlockRead =>
        /\ Len(f_bus) >= 2 <=> ReadEnd = PacketEnd
        /\ ReadEnd = PacketEnd =>
              /\ ctx.read_done
              /\ f_bus[2].op = "read_register"
              /\ f_bus[2].address = W32(WIFI_HOST_RCV_CTRL_0)
              /\ f_bus[2].ok =>
                    /\ Len(f_bus) = 3
                    /\ f_bus[3].op = "write_register"
                    /\ f_bus[3].address = W32(WIFI_HOST_RCV_CTRL_0)
                    /\ Bit1(f_bus[3].data) = 1
        /\ ReadEnd < PacketEnd =>
              /\ ctx.read_done = f_call.ctx.read_done
              /\ Len(f_bus) = 1
              /\ f_ret = Ok(<<>>)

C32_Witness ==
    /\ BlockRead
    /\ f_call.address = W32(86024)
    /\ f_call.len = 4
    /\ f_call.ctx.read_size = W32(12)
    /\ ~f_call.ctx.read_done
    /\ ctx.read_done
    /\ Len(f_bus) = 3
    /\ f_ret = Ok(<<>>)

(***************************************************************************)
(* The connection status (checked under SpecStatus)                        *)
(***************************************************************************)
\* the call handled a RespConStateChanged packet: wifi_callback called with
\* that opcode, directly or by isr for a header of group WIFI
HandlesConStateChanged ==
    \/ IsWifiCallback /\ f_call.byte = 44
    \/ IsIsr /\ HeaderRead /\ HeaderGid = 1 /\ HeaderOp = 44

\* C33: the connection status is changed only by the handling of
\* RespConStateChanged: wifi_callback for every other opcode, ip_callback for
\* every opcode, send, receive and finish_reception leave it as it was.
C33_StatusOnlyByConStateChanged ==
    (f_call.op \in {"isr", "receive", "wifi_callback", "send"} /\ ~HandlesConStateChanged)
        => state.status = f_call.state.status

\* ip_callback ran for opcode 44 on a connected station
C33_Witness ==
    /\ IsIsr
    /\ HeaderRead
    /\ HeaderGid = 2
    /\ HeaderOp = 44
    /\ Len(f_callbacks) = 1
    /\ f_callbacks[1].fn = "ip_callback"
    /\ f_call.state.status = "Connected"
    /\ state.status = "Connected"
    /\ Cardinality(FinishWrites) = 1
    /\ f_ret.tag = "Ok"

(***************************************************************************)
(* The order of initialize (checked under SpecInit)                        *)
(***************************************************************************)
\* the bus operations of initialize on a register
Writes(address) == BusOps("write_register", W32(address))

Reads(address) == BusOps("read_register", W32(address))

\* the write that starts the firmware
FirmwareStarts == { i \in Writes(BOOTROM_REG) : f_bus[i].data = << 239, 82, 47, 97 >> }

\* a read before operation i saw the efuse-ready bit / the end of the
\* firmware's initialization
EfuseReadyBefore(i) ==
    \E j \in Reads(EFUSE_REG) : j < i /\ f_bus[j].ok /\ f_bus[j].data[1] >= 128

InitFinishedBefore(i) ==
    \E j \in Reads(NMI_STATE_REG) :
        j < i /\ f_bus[j].ok /\ f_bus[j].data = W32(FINISH_INIT_VAL)

\* the stage of initialize a bus operation belongs to: 1 pins, 2 CRC disable,
\* 3 efuse wait, 4 boot-ROM wait, 5 version and configuration writes and the
\* start of the firmware, 6 wait for the firmware, 7 interrupt enable, 8 the
\* firmware version and the MAC address
Stage(i) ==
    LET o == f_bus[i]
    IN  CASE o.op \in {"init_cs", "reset.set_low", "reset.set_high"} -> 1
          [] o.op = "crc_disabled" \/ o.address = W32(NMI_SPI_PROTOCOL_CONFIG) -> 2
          [] o.address = W32(EFUSE_REG) -> 3
          [] o.address = W32(M2M_WAIT_FOR_HOST_REG) -> 4
          [] o.address = W32(BOOTROM_REG) /\ o.op = "read_register" -> 4
          [] o.address = W32(NMI_STATE_REG) /\ o.op = "write_register"
             /\ o.data = W32(DRIVER_VER_INFO) -> 5
          [] o.address = W32(rNMI_GP_REG_1) -> 5
          [] o.address = W32(BOOTROM_REG) -> 5
          [] o.address = W32(NMI_STATE_REG) -> 6
          [] o.address \in { W32(NMI_PIN_MUX_0), W32(NMI_INTR_REG_BASE) } -> 7
          [] OTHER -> 8

\* the operations of initialize come stage after stage
InitializeInOrder == \A i, j \in 1..Len(f_bus) : i < j => Stage(i) <= Stage(j)

\* C34: initialize writes 0xef522f61 to BOOTROM_REG only after a read of
\* EFUSE_REG showed bit 31 set, and enables the chip interrupt only after a
\* read of NMI_STATE_REG returned 0x02532636; its operations follow the order
\* pins, CRC disable, efuse wait, boot-ROM wait, version and configuration
\* writes, interrupt enable.
C34_InitializeHandshake ==
    IsInitialize =>
        /\ \A i \in FirmwareStarts : EfuseReadyBefore(i)
        /\ \A i \in Writes(NMI_PIN_MUX_0) \cup Writes(NMI_INTR_REG_BASE) :
              InitFinishedBefore(i)
        /\ InitializeInOrder

(***************************************************************************)
(* Network scans (checked under SpecScan)                                  *)
(***************************************************************************)
IsScanRequest == f_call.op = "request_network_scan"

\* the headers of ReqScan packets written to the chip during the call
ScanPackets ==
    { i \in 1..Len(f_bus) : /\ f_bus[i].op = "write_data"
                            /\ Len(f_bus[i].data) >= 2
                            /\ f_bus[i].data[1] = 1
                            /\ f_bus[i].data[2] = 16 }

\* C35: while a scan is in progress request_network_scan returns
\* ScanInProgress without bus traffic; scan_in_progress becomes true only in
\* a request_network_scan that sent its ReqScan packet and returned Ok, and
\* becomes false only in an isr that handled a RespScanDone packet; so no
\* ReqScan packet is sent while a scan is in progress.
C35_ScanInProgress ==
    f_call # NoCall =>
        /\ (IsScanRequest /\ f_call.state.scan_in_progress) =>
              /\ f_bus = <<>>
              /\ f_ret = Err(<< "ScanError", "ScanInProgress" >>)
              /\ state = f_call.state
        /\ (state.scan_in_progress /\ ~f_call.state.scan_in_progress) =>
              /\ IsScanRequest
              /\ ScanPackets # {}
              /\ NoBusFailure
              /\ f_ret = Ok(<<>>)
        /\ (~state.scan_in_progress /\ f_call.state.scan_in_progress) =>
              /\ IsIsr
              /\ HeaderRead
              /\ HeaderGid = 1
              /\ HeaderOp = 17
        /\ ScanPackets # {} => ~f_call.state.scan_in_progress

C35_Witness ==
    /\ IsScanRequest
    /\ f_call.state.scan_in_progress
    /\ f_call.state.num_ap = 1
    /\ f_bus = <<>>
    /\ f_ret = Err(<< "ScanError", "ScanInProgress" >>)

(***************************************************************************)
(* The CRC byte of a command (checked under Spec)                          *)
(***************************************************************************)
\* the bytes of the command before the CRC is appended
FieldBytes ==
    Slice(command_fields(Zeros(ShapeLen(b_call.cmd)), b_call.cmd, b_call.address,
                         b_call.data, b_call.size, b_call.clockless),
          0, ShapeLen(b_call.cmd))

\* C36: for every opcode and in every CRC mode the first byte command() puts
\* on the bus is the opcode, and the address, size and data bytes that follow
\* it are those of the command: the CRC byte overwrites none of them.
C36_CrcLeavesCommandIntact ==
    IsCommand =>
        /\ At(b_wire[1].tx, 0) = b_call.cmd
        /\ CommandBytes(ShapeLen(b_call.cmd)) = FieldBytes

(***************************************************************************)
(* The CRC mode of the bus through initialize (checked under SpecInit)     *)
(***************************************************************************)
\* the write of 0x52 to NMI_SPI_PROTOCOL_CONFIG that went through
ProtocolWrites ==
    { i \in Writes(NMI_SPI_PROTOCOL_CONFIG) : f_bus[i].ok /\ f_bus[i].data = W32(82) }

\* the buffer write_register puts on the bus for that write, in the CRC mode
\* the bus had when initialize was called
ProtocolWriteBuffer ==
    command_buffer(Zeros(TYPE_D_CRC + RESPONSE), CmdSingleWrite,
                   W32(NMI_SPI_PROTOCOL_CONFIG), W32(82), W32(0), FALSE,
                   crc, f_call.crc_disabled)

\* C37: in every state reached through new and initialize the bus appends
\* the CRC (crc || !crc_disabled) exactly when it sizes its buffers for it
\* (!crc_disabled); and crc_disabled becomes true only after the write of
\* 0x52 to NMI_SPI_PROTOCOL_CONFIG succeeded, that write carrying the CRC of
\* its 8 bytes at index 8.
C37_CrcModeConsistent ==
    /\ (crc \/ ~crc_disabled) <=> ~crc_disabled
    /\ (IsInitialize /\ crc_disabled /\ ~f_call.crc_disabled) =>
          /\ \E i \in ProtocolWrites : \E j \in i + 1..Len(f_bus) : f_bus[j].op = "crc_disabled"
          /\ Slice(ProtocolWriteBuffer, 0, 8) = << 201, 0, 232, 36, 0, 0, 0, 82 >>
          /\ At(ProtocolWriteBuffer, 8) = U8(crc7(127, Slice(ProtocolWriteBuffer, 0, 8)) * 2)
          /\ At(ProtocolWriteBuffer, 8) # 0
    /\ (IsInitialize /\ ProtocolWrites = {}) => crc_disabled = f_call.crc_disabled

C37_Witness ==
    /\ IsInitialize
    /\ ~crc
    /\ ~f_call.crc_disabled
    /\ crc_disabled
    /\ ProtocolWrites # {}
    /\ f_ret = Ok(<<>>)

(***************************************************************************)
(* The payload size isr passes on (checked under SpecIsr)                  *)
(***************************************************************************)
\* the length field of the header isr read: bytes 2 and 3, high byte first
HeaderLength == At(f_bus[4].data, 2) * 256 + At(f_bus[4].data, 3)

\* C38: for every header with group id WIFI or IP that isr reads, the payload
\* size header.length - 8 is computed without underflow: isr does not panic
\* and the callback is given the length less 8.
C38_PayloadSizeNoUnderflow ==
    (IsIsr /\ HeaderRead /\ HeaderGid \in {1, 2}) =>
        /\ f_ret # Panic
        /\ Len(f_callbacks) = 1
        /\ f_callbacks[1].data_size = HeaderLength - 8

(***************************************************************************)
(* read_done and the acknowledgement (checked under SpecIsr)               *)
(***************************************************************************)
\* isr accepted a packet: it saw new data and cleared the new-data bit
PacketAccepted == NewData /\ Len(f_bus) >= 2 /\ f_bus[2].ok

\* C39: after isr has accepted a packet, read_done is true only if the
\* acknowledgement (WIFI_HOST_RCV_CTRL_0 written with bit 1 set) went
\* through: a failed read or write in finish_reception leaves the packet
\* marked as not done.
C39_ReadDoneOnlyIfAcknowledged ==
    (PacketAccepted /\ ctx.read_done) => FinishWrites # {}

====
